---- MODULE Spec2Model ----
(***************************************************************************)
(* Model of the AI email assistant backend: the text generation providers  *)
(* and the construction of AIService (services/ai_service.py), the         *)
(* AIService structured tasks (classify_intent, categorize_emails), the    *)
(* /chat command router and the /emails/send endpoint (main.py).           *)
(*                                                                         *)
(* Python strings are sequences of symbols.  A symbol is one character (a   *)
(* backtick, "j", " ", "\n", ...) or, inside the body of a JSON document,  *)
(* an opaque chunk of characters that holds no backtick, no leading or     *)
(* trailing whitespace and does not start with "json"; the string          *)
(* operations of the code (startswith, split, slicing, strip, lower, in)   *)
(* never look inside such a chunk.  json.loads is given by its value on    *)
(* the documents of JsonDocs; every other text is no JSON document.        *)
(***************************************************************************)
EXTENDS Integers, Sequences, FiniteSets, TLC

VARIABLES
    provider,       \* class of the provider instance serving the current generate_text call
    pc_gen,         \* position of the generate_text call
    retries,        \* GeminiProvider.generate_text local `retries`
    last_error,     \* GeminiProvider.generate_text local `last_error` (<<>> is None)
    gen_log,        \* history of the call: endpoint attempts, their outcomes, sleeps
    gen_result,     \* what the call gave its caller
    task,           \* the AIService structured task that was called, "none" before a call
    task_in,        \* its arguments and the provider's answer to its generate_text call
    task_out,       \* what it returned
    http_request,   \* get_current_user's parameter `request`: cookies and headers
    user_data,      \* what get_current_user gave the endpoint, None before it returned
    chat_pc,        \* position of the request: "idle", "authenticated", "dispatch", "done"
    request_message,\* request.message
    intent_result,  \* chat's local intent_result
    response_data,  \* chat's local response_data
    response,       \* what the request returned: the response body or the HTTP error
    calls,          \* collaborator calls of the turn, in order, with how each ended
    inbox,          \* the mailbox: the messages of the inbox, most recent first
    settings,       \* config.settings: AI_PROVIDER and the three provider credentials
    ai_service,     \* the module's global AIService instance, or how its construction failed
    gemini_calls,   \* the generate_text calls running on the one GeminiProvider instance:
                    \* for each, its position, its locals, its history and its result
    presented       \* history: the listing the assistant last presented to the user, kept
                    \* by the specifications that observe it

gen_vars == <<provider, pc_gen, retries, last_error, gen_log, gen_result>>
task_vars == <<task, task_in, task_out>>

chat_vars == <<http_request, user_data, chat_pc, request_message, intent_result, response_data, response, calls, inbox, presented>>

service_vars == <<settings, ai_service>>

other_than_gen == <<task_vars, chat_vars, service_vars, gemini_calls>>
other_than_task == <<gen_vars, chat_vars, service_vars, gemini_calls>>
other_than_chat == <<gen_vars, task_vars, service_vars, gemini_calls>>
other_than_service == <<gen_vars, task_vars, chat_vars, gemini_calls>>
other_than_calls == <<gen_vars, task_vars, chat_vars, service_vars>>

----------------------------------------------------------------------------
(* Strings *)

Whitespace == {" ", "\n", "\t"}

lowerChar(c) ==
    CASE c = "A" -> "a" [] c = "B" -> "b" [] c = "C" -> "c" [] c = "D" -> "d"
      [] c = "E" -> "e" [] c = "G" -> "g" [] c = "H" -> "h" [] c = "I" -> "i"
      [] c = "M" -> "m" [] c = "N" -> "n" [] c = "O" -> "o" [] c = "P" -> "p"
      [] c = "Q" -> "q" [] c = "R" -> "r"
      [] c = "S" -> "s" [] c = "T" -> "t" [] c = "U" -> "u"
      [] OTHER -> c

\* str.lower()
lower(s) == [i \in 1..Len(s) |-> lowerChar(s[i])]

\* s.startswith(p)
startswith(s, p) == Len(s) >= Len(p) /\ SubSeq(s, 1, Len(p)) = p

\* `sub in s`
contains(s, sub) ==
    \E i \in 1..(Len(s) - Len(sub) + 1) : SubSeq(s, i, i + Len(sub) - 1) = sub

RECURSIVE lstrip(_)
lstrip(s) == IF s = <<>> \/ s[1] \notin Whitespace THEN s ELSE lstrip(Tail(s))

RECURSIVE rstrip(_)
rstrip(s) ==
    IF s = <<>> \/ s[Len(s)] \notin Whitespace THEN s ELSE rstrip(SubSeq(s, 1, Len(s) - 1))

\* str.strip()
strip(s) == rstrip(lstrip(s))


RECURSIVE split(_, _)
\* str.split(sep)
split(s, sep) ==
    IF ~contains(s, sep)
      THEN <<s>>
      ELSE LET hits == {i \in 1..(Len(s) - Len(sep) + 1) : SubSeq(s, i, i + Len(sep) - 1) = sep}
               i == CHOOSE k \in hits : \A m \in hits : k <= m
           IN  <<SubSeq(s, 1, i - 1)>> \o split(SubSeq(s, i + Len(sep), Len(s)), sep)

----------------------------------------------------------------------------
(* Python values, as json.loads builds them.  A float is held in tenths. *)

PNone == [t |-> "none"]
PInt(n) == [t |-> "int", n |-> n]
PFloat(tenths) == [t |-> "float", n |-> tenths]
PStr(s) == [t |-> "str", s |-> s]
PList(a) == [t |-> "list", a |-> a]
PDict(f) == [t |-> "dict", f |-> f]

EmptyDict == PDict(<<>>)

\* d.get(key, default) of a dict d
DictGet(d, key, default) == IF key \in DOMAIN d.f THEN d.f[key] ELSE default

\* bool(v)
Truthy(v) ==
    CASE v.t = "none" -> FALSE
      [] v.t \in {"int", "float"} -> v.n # 0
      [] v.t = "str" -> v.s # ""
      [] v.t = "list" -> v.a # <<>>
      [] v.t = "dict" -> DOMAIN v.f # {}

Ok(v) == [ok |-> TRUE, v |-> v]
Err == [ok |-> FALSE, v |-> PNone]

\* The backtick character (the module's string syntax has no way to write it).
Backtick == "BACKTICK"
Fence == <<Backtick, Backtick, Backtick>>
JsonTag == <<"j", "s", "o", "n">>
NL == <<"\n">>

\* JSON documents: the text the model writes and the value json.loads gives for it.
Doc(text, value) == [text |-> text, value |-> value]

ClassifierDocs ==
    << Doc(<<"{\"intent\":\"READ_EMAILS\",\"parameters\":{\"limit\":3},\"confidence\":0.9}">>,
           PDict([intent |-> PStr("READ_EMAILS"),
                  parameters |-> PDict([limit |-> PInt(3)]),
                  confidence |-> PFloat(9)])),
       Doc(<<"{\"intent\":\"READ_EMAILS\",\"parameters\":null,\"confidence\":0.9}">>,
           PDict([intent |-> PStr("READ_EMAILS"),
                  parameters |-> PNone,
                  confidence |-> PFloat(9)])),
       Doc(<<"{\"intent\":\"ARCHIVE_EMAIL\",\"parameters\":{},\"confidence\":0.9}">>,
           PDict([intent |-> PStr("ARCHIVE_EMAIL"),
                  parameters |-> EmptyDict,
                  confidence |-> PFloat(9)])),
       Doc(<<"{\"intent\":\"GENERAL_CHAT\",\"parameters\":{},\"confidence\":1.5}">>,
           PDict([intent |-> PStr("GENERAL_CHAT"),
                  parameters |-> EmptyDict,
                  confidence |-> PFloat(15)])),
       Doc(<<"{\"parameters\":{}}">>,
           PDict([parameters |-> EmptyDict])),
       Doc(<<"[]">>, PList(<<>>)),
       Doc(<<"null">>, PNone),
       Doc(<<"{\"intent\":\"GENERAL_CHAT\",\"parameters\":{\"custom_message\":\"run:",
             Backtick, Backtick, Backtick, "x",
             Backtick, Backtick, Backtick, "\"},\"confidence\":1.0}">>,
           PDict([intent |-> PStr("GENERAL_CHAT"),
                  parameters |-> PDict([custom_message |-> PStr("run:(fence)x(fence)")]),
                  confidence |-> PFloat(10)])),
       Doc(<<"{\"intent\":\"CATEGORIZE\",\"parameters\":{\"limit\":null},\"confidence\":0.8}">>,
           PDict([intent |-> PStr("CATEGORIZE"),
                  parameters |-> PDict([limit |-> PNone]),
                  confidence |-> PFloat(8)])),
       Doc(<<"{\"intent\":\"DELETE_EMAIL\",\"parameters\":{\"email_index\":2,\"sender\":\"john\"},\"confidence\":0.9}">>,
           PDict([intent |-> PStr("DELETE_EMAIL"),
                  parameters |-> PDict([email_index |-> PInt(2), sender |-> PStr("john")]),
                  confidence |-> PFloat(9)])),
       Doc(<<"{\"intent\":\"READ_EMAILS\",\"confidence\":-0.2}">>,
           PDict([intent |-> PStr("READ_EMAILS"),
                  confidence |-> PFloat(-2)])),
       Doc(<<"{\"intent\":\"SEND_EMAIL\",\"parameters\":{},\"confidence\":\"high\"}">>,
           PDict([intent |-> PStr("SEND_EMAIL"),
                  parameters |-> EmptyDict,
                  confidence |-> PStr("high")])) >>

CategorizationDocs ==
    << Doc(<<"{\"0\":[\"Work\",\"Urgent\"],\"1\":[\"Personal\"]}">>,
           PDict([n0 \in {"0", "1"} |->
                    IF n0 = "0" THEN PList(<<PStr("Work"), PStr("Urgent")>>)
                                ELSE PList(<<PStr("Personal")>>)])),
       Doc(<<"{\"0\":[]}">>,
           PDict([n0 \in {"0"} |-> PList(<<>>)])),
       Doc(<<"{\"0\":[\"Spam\"]}">>,
           PDict([n0 \in {"0"} |-> PList(<<PStr("Spam")>>)])),
       Doc(<<"{\"0\":\"Work\"}">>,
           PDict([n0 \in {"0"} |-> PStr("Work")])),
       Doc(<<"{\"0\":null}">>,
           PDict([n0 \in {"0"} |-> PNone])),
       Doc(<<"{\"0\":[[\"Work\"]]}">>,
           PDict([n0 \in {"0"} |-> PList(<<PList(<<PStr("Work")>>)>>)])),
       Doc(<<"{}">>, EmptyDict),
       Doc(<<"{\"1\":[\"Promotions\"]}">>,
           PDict([n0 \in {"1"} |-> PList(<<PStr("Promotions")>>)])),
       Doc(<<"{\"0\":[\"Work\",\"Work\"]}">>,
           PDict([n0 \in {"0"} |-> PList(<<PStr("Work"), PStr("Work")>>)])),
       Doc(<<"{\"0\":[5,\"Urgent\"]}">>,
           PDict([n0 \in {"0"} |-> PList(<<PInt(5), PStr("Urgent")>>)])),
       Doc(<<"{\"0\":[\"Work\"],\"note\":\"",
             Backtick, Backtick, Backtick, "\"}">>,
           PDict([n0 \in {"0", "note"} |->
                    IF n0 = "0" THEN PList(<<PStr("Work")>>) ELSE PStr("(fence)")])),
       Doc(<<"{\"0\":[\"Personal\"],\"1\":[\"Work\"]}">>,
           PDict([n0 \in {"0", "1"} |->
                    IF n0 = "0" THEN PList(<<PStr("Personal")>>)
                                ELSE PList(<<PStr("Work")>>)])) >>

\* Classifier documents of DELETE_EMAIL requests, by their parameters.
DeleteDoc(text, parameters) ==
    Doc(<<"{\"intent\":\"DELETE_EMAIL\",\"parameters\":", text, ",\"confidence\":0.9}">>,
        PDict([intent |-> PStr("DELETE_EMAIL"),
               parameters |-> PDict(parameters),
               confidence |-> PFloat(9)]))

DeleteDocs ==
    << DeleteDoc("{\"email_index\":5,\"sender\":\"amy\"}",
                 [email_index |-> PInt(5), sender |-> PStr("amy")]),
       DeleteDoc("{\"email_index\":0,\"subject_keyword\":\"invoice\"}",
                 [email_index |-> PInt(0), subject_keyword |-> PStr("invoice")]),
       DeleteDoc("{\"email_index\":\"abc\",\"sender\":\"john\"}",
                 [email_index |-> PStr("abc"), sender |-> PStr("john")]),
       DeleteDoc("{\"email_index\":2.5,\"sender\":\"amy\"}",
                 [email_index |-> PFloat(25), sender |-> PStr("amy")]),
       DeleteDoc("{\"sender\":\"nobody@x.com\"}",
                 [sender |-> PStr("nobody@x.com")]),
       DeleteDoc("{\"sender\":\"john\",\"subject_keyword\":\"invoice\"}",
                 [sender |-> PStr("john"), subject_keyword |-> PStr("invoice")]),
       DeleteDoc("{\"subject_keyword\":\"meeting\"}",
                 [subject_keyword |-> PStr("meeting")]),
       DeleteDoc("{}", <<>>),
       DeleteDoc("{\"sender\":\"nobody@x.com\",\"subject_keyword\":\"invoice\"}",
                 [sender |-> PStr("nobody@x.com"), subject_keyword |-> PStr("invoice")]),
       DeleteDoc("{\"email_index\":1}",
                 [email_index |-> PInt(1)]),
       DeleteDoc("{\"email_index\":-1,\"sender\":\"john\"}",
                 [email_index |-> PInt(-1), sender |-> PStr("john")]),
       DeleteDoc("{\"email_index\":null,\"sender\":\"\",\"subject_keyword\":\"meeting\"}",
                 [email_index |-> PNone, sender |-> PStr(""), subject_keyword |-> PStr("meeting")]) >>

\* Classifier documents of READ_EMAILS requests, by their limit.
ReadDocs ==
    << Doc(<<"{\"intent\":\"READ_EMAILS\",\"parameters\":{\"limit\":1},\"confidence\":0.9}">>,
           PDict([intent |-> PStr("READ_EMAILS"),
                  parameters |-> PDict([limit |-> PInt(1)]),
                  confidence |-> PFloat(9)])),
       Doc(<<"{\"intent\":\"READ_EMAILS\",\"parameters\":{\"limit\":null},\"confidence\":0.9}">>,
           PDict([intent |-> PStr("READ_EMAILS"),
                  parameters |-> PDict([limit |-> PNone]),
                  confidence |-> PFloat(9)])) >>

JsonDocs == ClassifierDocs \o CategorizationDocs \o DeleteDocs \o ReadDocs

\* Model output that is no JSON document.
ProseTexts ==
    { <<"Sorry, I cannot help with that.">>,
      <<>>,
      Fence,
      <<"{\"intent\":\"READ_EMAILS\",">> }

\* json.loads(text): the document's value, or a raise (JSONDecodeError).
\* Whitespace around the document is accepted.
json_loads(text) ==
    LET body == strip(text)
        known == {k \in DOMAIN JsonDocs : JsonDocs[k].text = body}
    IN  IF known = {} THEN Err ELSE Ok(JsonDocs[CHOOSE k \in known : TRUE].value)

\* ai_service.py:299-304 and 364-369, "Remove markdown code blocks if present"
StripFence(result_text) ==
    IF startswith(result_text, Fence)
      THEN LET inner == split(result_text, Fence)[2]
               untagged == IF startswith(inner, JsonTag)
                             THEN SubSeq(inner, 5, Len(inner))
                             ELSE inner
           IN  strip(untagged)
      ELSE result_text

\* How the model lays a JSON document out in its answer.
FenceStyles == {"fence", "fence_json", "fence_tight", "fence_json_tight"}
Styles == {"plain", "open_fence", "fence_trailer"} \cup FenceStyles

Wrap(text, style) ==
    CASE style = "plain" -> text
      [] style = "fence" -> Fence \o NL \o text \o NL \o Fence
      [] style = "fence_json" -> Fence \o JsonTag \o NL \o text \o NL \o Fence
      [] style = "fence_tight" -> Fence \o text \o Fence
      [] style = "fence_json_tight" -> Fence \o JsonTag \o text \o Fence
      [] style = "open_fence" -> Fence \o JsonTag \o NL \o text
      [] style = "fence_trailer" ->
            Fence \o JsonTag \o NL \o text \o NL \o Fence \o NL \o <<"Let me know if you need more.">>

----------------------------------------------------------------------------
(* Text generation providers *)

MAX_RETRIES == 3
BASE_DELAY == 2

\* random.random() * 0.5 lies in [0, 0.5): the jitter in tenths of a second is
\* below JITTER_TENTHS.
JITTER_TENTHS == 5

Providers == {"openai", "gemini", "groq"}

\* Errors the model endpoint raises, by what they are.
E429 == <<"4", "2", "9", " ", "T", "o", "o", " ", "M", "a", "n", "y">>
EQuota == <<"Q", "u", "o", "t", "a", " ", "e", "x", "c", "e", "e", "d", "e", "d">>
EResource == <<"R", "E", "S", "O", "U", "R", "C", "E", "_", "E", "X", "H", "A", "U", "S", "T", "E", "D">>
E500 == <<"5", "0", "0", " ", "I", "n", "t", "e", "r", "n", "a", "l">>
ETimeout == <<"t", "i", "m", "e", "d", " ", "o", "u", "t">>

RateLimitErrors == {E429, EQuota, EResource}
OtherErrors == {E500, ETimeout}
Errors == RateLimitErrors \cup OtherErrors

EAttribute == <<"'NoneType' object has no attribute 'strip'">>
EUnknown == <<"Unknown error in Gemini provider">>

\* Texts the model endpoint produces (before the provider trims them).
ModelTexts ==
    { <<"O", "K">>,
      <<" ", "O", "K", "\n">>,
      <<"\n", "a", " ", "b", " ">>,
      <<" ", "\n">> }

Returned(t) == [kind |-> "return", val |-> t]
Raised(e) == [kind |-> "raise", val |-> e]
NoResult == [kind |-> "none", val |-> <<>>]

Event(ev, s, d) == [ev |-> ev, s |-> s, delay |-> d]

IsRateLimit_Mut(error_str) == TRUE

\* ai_service.py:97, the rate-limit test on str(e)
IsRateLimit(error_str) ==
    \/ contains(error_str, <<"4", "2", "9">>)
    \/ contains(lower(error_str), <<"q", "u", "o", "t", "a">>)
    \/ contains(lower(error_str), <<"r", "e", "s", "o", "u", "r", "c", "e">>)

\* ai_service.py:99, `if retries > self.MAX_RETRIES` (r is retries after the increment)
RetriesExhausted_Mut(r) == r >= MAX_RETRIES
RetriesExhausted(r) == r > MAX_RETRIES

\* The delay growing by the base with each retry instead of doubling.
BackoffTenths_Mut(r) == 10 * (BASE_DELAY * r)

\* ai_service.py:105, the whole-second part of the delay, in tenths of a second
BackoffTenths(r) == 10 * (BASE_DELAY * (2 ^ (r - 1)))

\* ai_service.py:47-49 and 140-142: log and re-raise
ReRaise_Mut(e) == Returned(<<>>)
ReRaise(e) == Raised(e)

\* The call begins (lines 35, 68, 128); for Gemini, retries = 0 and last_error = None.
GenCall(p) ==
    /\ pc_gen = "idle"
    /\ provider' = p
    /\ pc_gen' = "await"
    /\ retries' = 0
    /\ last_error' = <<>>
    /\ gen_log' = <<>>
    /\ gen_result' = NoResult
    /\ UNCHANGED other_than_gen

\* OpenAIProvider.generate_text / GroqProvider.generate_text: one endpoint call.
\* The endpoint answers with content text, with content None, or raises.
ChatCompletion(p) ==
    /\ pc_gen = "await"
    /\ provider = p
    /\ \/ \E t \in ModelTexts :
            /\ gen_log' = Append(gen_log, Event("ok", t, 0))
            /\ gen_result' = Returned(strip(t))
            /\ pc_gen' = "returned"
       \/ /\ gen_log' = Append(gen_log, Event("none", <<>>, 0))
          /\ gen_result' = ReRaise(EAttribute)
          /\ pc_gen' = IF ReRaise(EAttribute).kind = "raise" THEN "raised" ELSE "returned"
       \/ \E e \in Errors :
            /\ gen_log' = Append(gen_log, Event("fail", e, 0))
            /\ gen_result' = ReRaise(e)
            /\ pc_gen' = IF ReRaise(e).kind = "raise" THEN "raised" ELSE "returned"
    /\ UNCHANGED <<provider, retries, last_error>>
    /\ UNCHANGED other_than_gen

OpenAIGenerate == ChatCompletion("openai")

GroqGenerate == ChatCompletion("groq")

\* The loop left by break on a successful attempt, instead of by return.
GeminiAttemptOk_Mut ==
    /\ pc_gen = "await"
    /\ provider = "gemini"
    /\ \E t \in ModelTexts : gen_log' = Append(gen_log, Event("ok", t, 0))
    /\ pc_gen' = "exit"
    /\ UNCHANGED <<provider, retries, last_error, gen_result>>
    /\ UNCHANGED other_than_gen

\* GeminiProvider.generate_text, one pass of the while body: the attempt succeeds.
GeminiAttemptOk ==
    /\ pc_gen = "await"
    /\ provider = "gemini"
    /\ \E t \in ModelTexts :
          /\ gen_log' = Append(gen_log, Event("ok", t, 0))
          /\ gen_result' = Returned(strip(t))
    /\ pc_gen' = "returned"
    /\ UNCHANGED <<provider, retries, last_error>>
    /\ UNCHANGED other_than_gen

\* GeminiProvider.generate_text, one pass of the while body: the attempt raises
\* (lines 92-111).
GeminiAttemptFail ==
    /\ pc_gen = "await"
    /\ provider = "gemini"
    /\ \E e \in Errors :
          /\ last_error' = <<e>>
          /\ IF IsRateLimit(e)
                THEN /\ retries' = retries + 1
                     /\ IF RetriesExhausted(retries + 1)
                           THEN /\ gen_log' = Append(gen_log, Event("fail", e, 0))
                                /\ pc_gen' = "exit"
                           ELSE \E j \in 0..(JITTER_TENTHS - 1) :
                                  /\ gen_log' = gen_log \o
                                        << Event("fail", e, 0),
                                           Event("sleep", <<>>, BackoffTenths(retries + 1) + j) >>
                                  /\ pc_gen' = "sleep"
                ELSE /\ retries' = retries
                     /\ gen_log' = Append(gen_log, Event("fail", e, 0))
                     /\ pc_gen' = "exit"
    /\ UNCHANGED <<provider, gen_result>>
    /\ UNCHANGED other_than_gen

\* asyncio.sleep returns; the while condition (line 84) is tested again.
GeminiWake ==
    /\ pc_gen = "sleep"
    /\ pc_gen' = IF retries <= MAX_RETRIES THEN "await" ELSE "exit"
    /\ UNCHANGED <<provider, retries, last_error, gen_log, gen_result>>
    /\ UNCHANGED other_than_gen

\* Lines 113-116, after the loop.
GeminiExit ==
    /\ pc_gen = "exit"
    /\ gen_result' = IF last_error # <<>> THEN Raised(last_error[1]) ELSE Raised(EUnknown)
    /\ pc_gen' = "raised"
    /\ UNCHANGED <<provider, retries, last_error, gen_log>>
    /\ UNCHANGED other_than_gen

\* The caller has the result; the instance serves the next call.
GenDone ==
    /\ pc_gen \in {"returned", "raised"}
    /\ pc_gen' = "idle"
    /\ gen_result' = NoResult
    /\ gen_log' = <<>>
    /\ retries' = 0
    /\ last_error' = <<>>
    /\ UNCHANGED provider
    /\ UNCHANGED other_than_gen

GenInit ==
    /\ provider = "openai"
    /\ pc_gen = "idle"
    /\ retries = 0
    /\ last_error = <<>>
    /\ gen_log = <<>>
    /\ gen_result = NoResult

vars == <<gen_vars, task_vars, chat_vars, service_vars, gemini_calls>>

NextGen ==
    \/ \E p \in Providers : GenCall(p)
    \/ OpenAIGenerate
    \/ GroqGenerate
    \/ GeminiAttemptOk
    \/ GeminiAttemptFail
    \/ GeminiWake
    \/ GeminiExit
    \/ GenDone

----------------------------------------------------------------------------
(* Concurrent generate_text calls on the one GeminiProvider instance.  The   *)
(* requests of the event loop interleave at the awaits of lines 86 and 107;  *)
(* a step is the code a call runs between two awaits.                        *)

\* The calls in flight at once.
CallIds == {1, 2}

\* Endpoint outcomes of the concurrent calls.
CallErrors == {E429, E500}
CallTexts == {<<" ", "O", "K", "\n">>}
CallJitters == {0, JITTER_TENTHS - 1}

\* A call: its position and the locals of its coroutine frame (lines 81-82).
CallFrame(pc, r, e, log, result) ==
    [pc |-> pc, retries |-> r, last_error |-> e, log |-> log, result |-> result]

IdleCall == CallFrame("idle", 0, <<>>, <<>>, NoResult)

\* Lines 68-86: the call starts with retries = 0, last_error = None and awaits
\* the endpoint.
CallStart(c) ==
    /\ gemini_calls[c].pc = "idle"
    /\ gemini_calls' = [gemini_calls EXCEPT ![c] = CallFrame("await", 0, <<>>, <<>>, NoResult)]
    /\ UNCHANGED other_than_calls

\* Line 90: the endpoint answered.
CallAttemptOk(c) ==
    /\ gemini_calls[c].pc = "await"
    /\ \E t \in CallTexts :
          gemini_calls' = [gemini_calls EXCEPT
              ![c].pc = "returned",
              ![c].log = Append(@, Event("ok", t, 0)),
              ![c].result = Returned(strip(t))]
    /\ UNCHANGED other_than_calls

\* Lines 92-111 with retries kept on the instance: a rate-limit failure of one
\* call counts against every call in flight.
CallAttemptFail_Mut(c) ==
    /\ gemini_calls[c].pc = "await"
    /\ \E e \in CallErrors, j \in CallJitters :
          LET shared == 1 + gemini_calls[1].retries + gemini_calls[2].retries
              bump == [k \in CallIds |->
                         IF gemini_calls[k].pc = "idle" \/ ~IsRateLimit(e)
                           THEN gemini_calls[k]
                           ELSE [gemini_calls[k] EXCEPT !.retries = shared]]
          IN  gemini_calls' = [bump EXCEPT
                  ![c].last_error = <<e>>,
                  ![c].pc = IF IsRateLimit(e) /\ ~RetriesExhausted(shared) THEN "sleep" ELSE "exit",
                  ![c].log = IF IsRateLimit(e) /\ ~RetriesExhausted(shared)
                               THEN @ \o << Event("fail", e, 0),
                                             Event("sleep", <<>>, BackoffTenths(shared) + j) >>
                               ELSE Append(@, Event("fail", e, 0))]
    /\ UNCHANGED other_than_calls

\* Lines 92-111: the endpoint raised.
CallAttemptFail(c) ==
    /\ gemini_calls[c].pc = "await"
    /\ \E e \in CallErrors, j \in CallJitters :
          LET r == gemini_calls[c].retries + 1
          IN  gemini_calls' = [gemini_calls EXCEPT
                  ![c].last_error = <<e>>,
                  ![c].retries = IF IsRateLimit(e) THEN r ELSE @,
                  ![c].pc = IF IsRateLimit(e) /\ ~RetriesExhausted(r) THEN "sleep" ELSE "exit",
                  ![c].log = IF IsRateLimit(e) /\ ~RetriesExhausted(r)
                               THEN @ \o << Event("fail", e, 0),
                                             Event("sleep", <<>>, BackoffTenths(r) + j) >>
                               ELSE Append(@, Event("fail", e, 0))]
    /\ UNCHANGED other_than_calls

\* Line 107 returns; the while condition (line 84) is tested and the endpoint
\* is awaited again.
CallWake(c) ==
    /\ gemini_calls[c].pc = "sleep"
    /\ gemini_calls' = [gemini_calls EXCEPT
           ![c].pc = IF gemini_calls[c].retries <= MAX_RETRIES THEN "await" ELSE "exit"]
    /\ UNCHANGED other_than_calls

\* Lines 113-116, after the loop.
CallExit(c) ==
    /\ gemini_calls[c].pc = "exit"
    /\ gemini_calls' = [gemini_calls EXCEPT
           ![c].pc = "raised",
           ![c].result = IF gemini_calls[c].last_error # <<>>
                           THEN Raised(gemini_calls[c].last_error[1])
                           ELSE Raised(EUnknown)]
    /\ UNCHANGED other_than_calls

\* The caller has the result.
CallDone(c) ==
    /\ gemini_calls[c].pc \in {"returned", "raised"}
    /\ gemini_calls' = [gemini_calls EXCEPT ![c] = IdleCall]
    /\ UNCHANGED other_than_calls

CallsInit == gemini_calls = [c \in CallIds |-> IdleCall]

NextCalls ==
    \/ \E c \in CallIds : CallStart(c)
    \/ \E c \in CallIds : CallAttemptOk(c)
    \/ \E c \in CallIds : CallAttemptFail(c)
    \/ \E c \in CallIds : CallWake(c)
    \/ \E c \in CallIds : CallExit(c)
    \/ \E c \in CallIds : CallDone(c)

----------------------------------------------------------------------------
(* AIService.__init__ and the module's global instance *)

\* Values of settings.AI_PROVIDER.
ProviderNames ==
    { <<"o", "p", "e", "n", "a", "i">>, <<"O", "P", "E", "N", "A", "I">>,
      <<"g", "e", "m", "i", "n", "i">>, <<"G", "e", "m", "i", "n", "i">>,
      <<"g", "r", "o", "q">>, <<"G", "R", "O", "Q">>,
      <<"c", "l", "a", "u", "d", "e">>, <<>> }

\* Values of a credential setting: unset, empty, set.
ApiKeys == {PNone, PStr(""), PStr("key")}

SettingsSpace ==
    [AI_PROVIDER : ProviderNames,
     OPENAI_API_KEY : ApiKeys, GEMINI_API_KEY : ApiKeys, GROQ_API_KEY : ApiKeys]

\* The settings the other specifications run under.
DefaultSettings ==
    [AI_PROVIDER |-> <<"g", "e", "m", "i", "n", "i">>,
     OPENAI_API_KEY |-> PNone, GEMINI_API_KEY |-> PStr("key"), GROQ_API_KEY |-> PNone]

\* A provider instance: its class and the key it was constructed with.
ProviderInstance(class, api_key) == [class |-> class, api_key |-> api_key]

NotConstructed == [state |-> "none", constructed |-> <<>>, error |-> <<>>]

\* __init__ returned: self.provider is the one instance constructed.
Constructed(instance) == [state |-> "built", constructed |-> <<instance>>, error |-> <<>>]

\* __init__ raised ValueError(message).
ValueError(message) == [state |-> "failed", constructed |-> <<>>, error |-> message]

\* __init__ with a default: a name it does not know selects Gemini.
AIService_Mut(s) ==
    LET provider_name == lower(s.AI_PROVIDER)
    IN  CASE provider_name = <<"o", "p", "e", "n", "a", "i">> /\ Truthy(s.OPENAI_API_KEY) ->
                Constructed(ProviderInstance("openai", s.OPENAI_API_KEY))
          [] provider_name = <<"g", "r", "o", "q">> /\ Truthy(s.GROQ_API_KEY) ->
                Constructed(ProviderInstance("groq", s.GROQ_API_KEY))
          [] provider_name \notin {<<"o", "p", "e", "n", "a", "i">>, <<"g", "r", "o", "q">>}
               /\ Truthy(s.GEMINI_API_KEY) ->
                Constructed(ProviderInstance("gemini", s.GEMINI_API_KEY))
          [] OTHER -> ValueError(<<"API key is required">>)

\* ai_service.py:148-171
AIService(s) ==
    LET provider_name == lower(s.AI_PROVIDER)
    IN  CASE provider_name = <<"o", "p", "e", "n", "a", "i">> ->
                IF ~Truthy(s.OPENAI_API_KEY)
                  THEN ValueError(<<"OPENAI_API_KEY", " is required when AI_PROVIDER=", "openai">>)
                  ELSE Constructed(ProviderInstance("openai", s.OPENAI_API_KEY))
          [] provider_name = <<"g", "e", "m", "i", "n", "i">> ->
                IF ~Truthy(s.GEMINI_API_KEY)
                  THEN ValueError(<<"GEMINI_API_KEY", " is required when AI_PROVIDER=", "gemini", ".",
                                    " Get free key at: ", "https://makersuite.google.com/app/apikey">>)
                  ELSE Constructed(ProviderInstance("gemini", s.GEMINI_API_KEY))
          [] provider_name = <<"g", "r", "o", "q">> ->
                IF ~Truthy(s.GROQ_API_KEY)
                  THEN ValueError(<<"GROQ_API_KEY", " is required when AI_PROVIDER=", "groq", ".",
                                    " Get free key at: ", "https://console.groq.com">>)
                  ELSE Constructed(ProviderInstance("groq", s.GROQ_API_KEY))
          [] OTHER ->
                ValueError(<<"Unknown AI_PROVIDER: ">> \o provider_name
                             \o <<". Use 'openai', 'gemini', or 'groq'">>)

\* ai_service.py:446-447, run when the module is imported
ImportModule ==
    /\ ai_service = NotConstructed
    /\ ai_service' = AIService(settings)
    /\ UNCHANGED settings
    /\ UNCHANGED other_than_service

\* The process starts again under other settings.
Restart ==
    /\ ai_service # NotConstructed
    /\ ai_service' = NotConstructed
    /\ settings' \in SettingsSpace
    /\ UNCHANGED other_than_service

\* The service the requests are served by.
ServiceReady ==
    /\ settings = DefaultSettings
    /\ ai_service = AIService(DefaultSettings)

ServiceInit ==
    /\ settings \in SettingsSpace
    /\ ai_service = NotConstructed

NextService ==
    \/ ImportModule
    \/ Restart

----------------------------------------------------------------------------
(* AIService.classify_intent and AIService.categorize_emails *)

\* Words of user messages.
WShow == <<"S", "h", "o", "w">>
WInbox == <<"i", "n", "b", "o", "x">>
WEmails == <<"e", "m", "a", "i", "l", "s">>
WDigest == <<"D", "i", "g", "e", "s", "t">>
WSummarize == <<"s", "u", "m", "m", "a", "r", "i", "z", "e">>
WCategories == <<"c", "a", "t", "e", "g", "o", "r", "i", "e", "s">>
WHello == <<"h", "e", "l", "l", "o">>
WDelete == <<"d", "e", "l", "e", "t", "e">>

Words == {WShow, WInbox, WEmails, WDigest, WSummarize, WCategories, WHello, WDelete}

MaxWords == 2

RECURSIVE Join(_)
Join(ws) == IF Len(ws) = 1 THEN ws[1] ELSE ws[1] \o <<" ">> \o Join(Tail(ws))

UserMessages == {Join(ws) : ws \in UNION {[1..n -> Words] : n \in 1..MaxWords}}

KwMail == <<"m", "a", "i", "l">>
KwInbox == <<"i", "n", "b", "o", "x">>
KwShow == <<"s", "h", "o", "w">>
KwDigest == <<"d", "i", "g", "e", "s", "t">>
KwSummar == <<"s", "u", "m", "m", "a", "r">>
KwCategor == <<"c", "a", "t", "e", "g", "o", "r">>

ReadEmailsFallback ==
    PDict([intent |-> PStr("READ_EMAILS"),
           parameters |-> PDict([limit |-> PInt(5)]),
           confidence |-> PFloat(5)])

CategorizeFallback ==
    PDict([intent |-> PStr("CATEGORIZE"),
           parameters |-> PDict([limit |-> PInt(20)]),
           confidence |-> PFloat(5)])

GeneralChatFallback ==
    PDict([intent |-> PStr("GENERAL_CHAT"),
           parameters |-> EmptyDict,
           confidence |-> PFloat(0),
           message |-> PStr("I'm having trouble connecting to my AI brain right now. You can try asking me to 'read emails' directly.")])

Fallback_SwappedMut(user_message) ==
    LET lower_msg == lower(user_message)
    IN  IF contains(lower_msg, KwDigest) \/ contains(lower_msg, KwSummar) \/ contains(lower_msg, KwCategor)
          THEN CategorizeFallback
          ELSE IF contains(lower_msg, KwMail) \/ contains(lower_msg, KwInbox) \/ contains(lower_msg, KwShow)
                 THEN ReadEmailsFallback
                 ELSE GeneralChatFallback

Fallback_NoSummarMut(user_message) ==
    LET lower_msg == lower(user_message)
    IN  IF contains(lower_msg, KwMail) \/ contains(lower_msg, KwInbox) \/ contains(lower_msg, KwShow)
          THEN ReadEmailsFallback
          ELSE IF contains(lower_msg, KwDigest) \/ contains(lower_msg, KwCategor)
                 THEN CategorizeFallback
                 ELSE GeneralChatFallback

\* ai_service.py:310-324, the except block of classify_intent
Fallback(user_message) ==
    LET lower_msg == lower(user_message)
    IN  IF contains(lower_msg, KwMail) \/ contains(lower_msg, KwInbox) \/ contains(lower_msg, KwShow)
          THEN ReadEmailsFallback
          ELSE IF contains(lower_msg, KwDigest) \/ contains(lower_msg, KwSummar) \/ contains(lower_msg, KwCategor)
                 THEN CategorizeFallback
                 ELSE GeneralChatFallback

\* ai_service.py:297-306 and 362-371: the provider's answer, fence removed, parsed.
\* Err stands for an exception (the provider's, or json.loads').
ParseStructured(gen) ==
    IF gen.kind = "raise" THEN Err ELSE json_loads(StripFence(gen.val))

\* AIService.classify_intent.  Line 307 calls result.get, which raises
\* AttributeError when the parsed document is no object.
classify_intent(user_message, gen) ==
    LET result == ParseStructured(gen)
    IN  IF result.ok /\ result.v.t = "dict" THEN result.v ELSE Fallback(user_message)

CategoryNames == {"Work", "Personal", "Promotions", "Urgent"}

NoCategories == [c \in CategoryNames |-> <<>>]

AllPersonal(emails) == [c \in CategoryNames |-> IF c = "Personal" THEN emails ELSE <<>>]

\* str(idx)
Digits == <<"0", "1", "2", "3", "4", "5", "6", "7", "8", "9">>
str(idx) == Digits[idx + 1]

\* The characters of the strings that are iterated.
Chars(s) ==
    CASE s = "Work" -> <<"W", "o", "r", "k">>
      [] s = "(fence)" -> <<Backtick, Backtick, Backtick>>
      [] OTHER -> <<s>>

RECURSIVE SetToSeq(_)
SetToSeq(S) == IF S = {} THEN <<>> ELSE LET x == CHOOSE y \in S : TRUE IN <<x>> \o SetToSeq(S \ {x})

\* iter(v): the items a for loop over v visits; Err is TypeError (not iterable).
Iterate(v) ==
    CASE v.t = "list" -> Ok(v.a)
      [] v.t = "str" -> Ok([i \in 1..Len(Chars(v.s)) |-> PStr(Chars(v.s)[i])])
      [] v.t = "dict" -> Ok([i \in 1..Cardinality(DOMAIN v.f) |-> PStr(SetToSeq(DOMAIN v.f)[i])])
      [] OTHER -> Err

\* hash(v) raises TypeError for a list or a dict
Hashable(v) == v.t \notin {"list", "dict"}

RECURSIVE AddToCategories(_, _, _)
\* ai_service.py:383-385, the inner loop; [ok |-> FALSE] is a TypeError
AddToCategories(categories, email, items) ==
    IF items = <<>>
      THEN [ok |-> TRUE, categories |-> categories]
      ELSE LET category == Head(items)
           IN  IF ~Hashable(category)
                 THEN [ok |-> FALSE, categories |-> categories]
                 ELSE AddToCategories(
                        IF category.t = "str" /\ category.s \in CategoryNames
                          THEN [categories EXCEPT ![category.s] = Append(@, email)]
                          ELSE categories,
                        email, Tail(items))

\* ai_service.py:382, the default of categorization.get
DefaultCategories == PList(<<PStr("Personal")>>)

RECURSIVE Organize(_, _, _, _)
\* ai_service.py:381-385, the loop over enumerate(emails) from position idx (0-based)
Organize(categories, emails, idx, categorization) ==
    IF idx >= Len(emails)
      THEN [ok |-> TRUE, categories |-> categories]
      ELSE LET email_categories == DictGet(categorization, str(idx), DefaultCategories)
               items == Iterate(email_categories)
           IN  IF ~items.ok
                 THEN [ok |-> FALSE, categories |-> categories]
                 ELSE LET added == AddToCategories(categories, emails[idx + 1], items.v)
                      IN  IF ~added.ok
                            THEN added
                            ELSE Organize(added.categories, emails, idx + 1, categorization)

\* AIService.categorize_emails.  With no emails it returns before the provider
\* is called.
categorize_emails(emails, gen) ==
    IF emails = <<>>
      THEN NoCategories
      ELSE LET categorization == ParseStructured(gen)
           IN  IF ~categorization.ok \/ categorization.v.t # "dict"
                 THEN AllPersonal(emails)
                 ELSE LET organized == Organize(NoCategories, emails, 0, categorization.v)
                      IN  IF organized.ok THEN organized.categories ELSE AllPersonal(emails)

\* Provider answers to a structured task: a raise, prose, or a JSON document
\* laid out in one of the styles (the provider returns trimmed text).
Answer(gen, doc, style) == [gen |-> gen, doc |-> doc, style |-> style]

Answers ==
    {Answer(Raised(e), 0, "none") : e \in {E429, ETimeout}}
    \cup {Answer(Returned(strip(t)), 0, "none") : t \in ProseTexts}
    \cup {Answer(Returned(strip(Wrap(JsonDocs[d].text, st))), d, st) :
            d \in DOMAIN JsonDocs, st \in Styles}

EmailIds == {"m1", "m2", "m3", "m4"}

MaxEmails == 2

\* Fetched message lists: distinct messages, at most MaxEmails of them.
EmailLists ==
    UNION {{l \in [1..n -> EmailIds] : \A i, k \in 1..n : i # k => l[i] # l[k]} : n \in 0..MaxEmails}

\* What the provider gives the summarize call.
SummaryAnswers == {Raised(E429), Returned(<<"A short summary.">>)}

\* ai_service.py:203, the text returned when the provider call failed, word by word
SummaryUnavailable ==
    <<"Summary", " ", "unavailable", " ", "(AI", " ", "service", " ", "busy)">>

\* AIService.summarize_email
summarize_email(gen) ==
    IF gen.kind = "raise" THEN SummaryUnavailable ELSE gen.val

ClassifyIntent ==
    /\ task = "none"
    /\ \E m \in UserMessages, a \in Answers :
          /\ task_in' = [user_message |-> m, emails |-> <<>>, answer |-> a]
          /\ task_out' = classify_intent(m, a.gen)
    /\ task' = "classify_intent"
    /\ UNCHANGED other_than_task

CategorizeEmails ==
    /\ task = "none"
    /\ \E l \in EmailLists, a \in Answers :
          /\ task_in' = [user_message |-> <<>>, emails |-> l, answer |-> a]
          /\ task_out' = categorize_emails(l, a.gen)
    /\ task' = "categorize_emails"
    /\ UNCHANGED other_than_task

SummarizeEmail ==
    /\ task = "none"
    /\ \E gen \in SummaryAnswers \cup {Raised(ETimeout)} :
          /\ task_in' = [user_message |-> <<>>, emails |-> <<>>, answer |-> Answer(gen, 0, "none")]
          /\ task_out' = Returned(summarize_email(gen))
    /\ task' = "summarize_email"
    /\ UNCHANGED other_than_task

TaskReturn ==
    /\ task # "none"
    /\ task' = "none"
    /\ task_in' = [user_message |-> <<>>, emails |-> <<>>, answer |-> Answer(NoResult, 0, "none")]
    /\ task_out' = PNone
    /\ UNCHANGED other_than_task

TaskInit ==
    /\ task = "none"
    /\ task_in = [user_message |-> <<>>, emails |-> <<>>, answer |-> Answer(NoResult, 0, "none")]
    /\ task_out = PNone

NextTask ==
    \/ ClassifyIntent
    \/ CategorizeEmails
    \/ SummarizeEmail
    \/ TaskReturn

----------------------------------------------------------------------------
(* The /chat endpoint (main.py) *)

\* A collaborator call of the turn and whether it returned (ok) or raised.
Call(op, target, n, ok) == [op |-> op, target |-> target, n |-> n, ok |-> ok]

Outcomes == {"ok", "raise"}

\* Headers of the messages in the mailbox.
SenderOf(id) ==
    CASE id = "m1" -> "john" [] id = "m2" -> "amy" [] id = "m3" -> "john" [] OTHER -> "bob"

SubjectOf(id) ==
    CASE id = "m1" -> "meeting" [] id = "m2" -> "invoice" [] id = "m3" -> "invoice" [] OTHER -> "meeting"

ECredentials == <<"'NoneType' object has no attribute 'get'">>
EMailbox == <<"<HttpError 503 \"The service is currently unavailable.\">">>
EAttributeGet(v) == <<"AttributeError: object has no attribute 'get': ", v.t>>

NoResponse == [status |-> "none", code |-> 0, detail |-> <<>>, data |-> <<>>]
OkResponse(data) == [status |-> "ok", code |-> 200, detail |-> <<>>, data |-> data]

\* main.py:590-592, the except block of chat
HTTP500(e) ==
    [status |-> "error", code |-> 500, detail |-> <<"Failed to process message: ">> \o e, data |-> <<>>]

----------------------------------------------------------------------------
(* Authentication of a request: main.py get_current_user and
   AuthService.verify_jwt_token.  A token is a string of chunks; jwt.decode is
   a table over the tokens a client can send. *)

ValidToken == <<"jwt.valid">>
ExpiredToken == <<"jwt.expired">>
ForgedToken == <<"jwt.forged">>
MalformedToken == <<"invalid.token.here">>

Tokens == {ValidToken, ExpiredToken, ForgedToken, MalformedToken}

\* The payload create_jwt_token signed (auth_service.py:121-134).
Payload ==
    PDict([user_info |-> PStr(<<"user">>), credentials |-> PStr(<<"oauth">>)])

\* jwt.decode(token, JWT_SECRET_KEY, algorithms=[JWT_ALGORITHM])
jwt_decode(token) ==
    CASE token = ValidToken -> Returned(Payload)
      [] token = ExpiredToken -> Raised(<<"ExpiredSignatureError">>)
      [] token = ForgedToken -> Raised(<<"InvalidSignatureError">>)
      [] OTHER -> Raised(<<"DecodeError">>)

\* verify_jwt_token with the except clauses left out for expired tokens
verify_jwt_token_Mut(token) ==
    LET decoded == jwt_decode(token)
    IN  IF decoded.kind = "return" \/ decoded.val = <<"ExpiredSignatureError">>
          THEN Payload
          ELSE PNone

\* AuthService.verify_jwt_token.  InvalidSignatureError and DecodeError are
\* InvalidTokenErrors.
verify_jwt_token(token) ==
    LET decoded == jwt_decode(token)
    IN  IF decoded.kind = "return" THEN decoded.val ELSE PNone

\* The requests of the clients: the auth_token cookie and the Authorization
\* header, each absent (None) or a string.
Cookies == {PNone, PStr(<<>>), PStr(ValidToken), PStr(ExpiredToken), PStr(MalformedToken)}

AuthorizationHeaders ==
    {PNone,
     PStr(<<"Bearer", " ", "jwt.valid">>),
     PStr(<<"Bearer", " ", "jwt.expired">>),
     PStr(<<"Bearer", " ", "jwt.forged">>),
     PStr(<<"Bearer", " ">>),
     PStr(<<"Bearer", " ", " ", "jwt.valid">>),
     PStr(<<"Basic", " ", "jwt.valid">>)}

HttpRequest(cookie, authorization) == [auth_token |-> cookie, Authorization |-> authorization]

HttpRequests == {HttpRequest(c, h) : c \in Cookies, h \in AuthorizationHeaders}

\* No request is being authenticated.
NoRequest == [auth_token |-> PStr(<<"(none)">>), Authorization |-> PStr(<<"(none)">>)]

\* `not token` of a token that is None or a string
NoToken(token) == token = PNone \/ token.s = <<>>

\* main.py:94-101, the token of the request
TokenOf(request) ==
    LET cookie == request.auth_token
        auth_header == request.Authorization
    IN  IF ~NoToken(cookie)
          THEN cookie
          ELSE IF ~NoToken(auth_header) /\ startswith(auth_header.s, <<"Bearer", " ">>)
                 THEN PStr(split(auth_header.s, <<" ">>)[2])
                 ELSE cookie

\* main.py:103-108 and 112-117, the HTTPException as the client receives it
HTTP401(detail) == [status |-> "error", code |-> 401, detail |-> detail, data |-> <<>>]

\* main.py:79-117
get_current_user(request) ==
    LET token == TokenOf(request)
    IN  IF NoToken(token)
          THEN Raised(<<"Not authenticated. Please log in.">>)
          ELSE LET payload == verify_jwt_token(token.s)
               IN  IF ~Truthy(payload)
                     THEN Raised(<<"Invalid or expired session. Please log in again.">>)
                     ELSE Returned(payload)

\* Depends(get_current_user) of an email or chat endpoint: the endpoint's body
\* runs only when the dependency returned.
GetCurrentUser ==
    /\ chat_pc = "idle"
    /\ \E request \in HttpRequests :
          LET result == get_current_user(request)
          IN  /\ http_request' = request
              /\ IF result.kind = "raise"
                   THEN /\ response' = HTTP401(result.val)
                        /\ user_data' = PNone
                        /\ chat_pc' = "done"
                   ELSE /\ response' = response
                        /\ user_data' = result.val
                        /\ chat_pc' = "authenticated"
    /\ UNCHANGED <<request_message, intent_result, response_data, calls, inbox, presented>>
    /\ UNCHANGED other_than_chat

\* Messages of chat requests and the classifier's answers to them.
ChatMessages == {WInbox, WDigest, WHello, Join(<<WSummarize, WEmails>>)}

ChatAnswers ==
    {a \in Answers :
        \/ a.gen.kind = "raise"
        \/ (a.doc = 0 /\ a.gen.val = <<>>)
        \/ (a.doc \in DOMAIN ClassifierDocs /\ a.style = "plain")
        \/ (a.doc > Len(ClassifierDocs) + Len(CategorizationDocs) /\ a.style = "plain")
        \/ (a.doc = 1 /\ a.style = "fence_json")}

CategorizeAnswers ==
    {a \in Answers :
        \/ (a.gen.kind = "raise" /\ a.gen.val = E429)
        \/ (a.doc \in {13, 14, 20, 21, 24} /\ a.style = "plain")}

\* AIService.generate_daily_digest, after its empty-list return
generate_daily_digest(gen) ==
    IF gen.kind = "raise" THEN <<"Unable to generate daily digest at this time.">> ELSE gen.val

\* main.py:453-454
intent == DictGet(intent_result, "intent", PNone)
params == DictGet(intent_result, "parameters", EmptyDict)

\* `x or default`
OrElse(x, default) == IF Truthy(x) THEN x ELSE default

Min(a, b) == IF a <= b THEN a ELSE b

\* fetch_emails without maxResults: the whole inbox
fetch_emails_Mut(max_results) == inbox

\* GmailService.fetch_emails: the max_results most recent inbox messages
fetch_emails(max_results) == SubSeq(inbox, 1, Min(max_results, Len(inbox)))

\* Fail with the exception swallowed: the request returns response_data as it is.
Fail_Mut(e, made) ==
    /\ response' = OkResponse(response_data)
    /\ calls' = calls \o made
    /\ chat_pc' = "done"
    /\ UNCHANGED <<request_message, intent_result, response_data, inbox, presented>>

\* The request ends with the exception e caught at main.py:590.
Fail(e, made) ==
    /\ response' = HTTP500(e)
    /\ calls' = calls \o made
    /\ chat_pc' = "done"
    /\ UNCHANGED <<request_message, intent_result, response_data, inbox, presented>>

\* The listing of a response is what the user sees from now on.  A
\* specification that does not observe the history leaves it at NotObserved.
NotObserved == <<"(not observed)">>

Present(listing) == presented' = IF presented = NotObserved THEN presented ELSE listing

\* The request returns response_data (main.py:588).
Respond(data, made) ==
    /\ response' = OkResponse(data)
    /\ response_data' = data
    /\ calls' = calls \o made
    /\ chat_pc' = "done"
    /\ UNCHANGED <<request_message, intent_result>>

\* main.py:449-468: classify the message, build the mailbox client, start
\* response_data.
ChatClassify ==
    /\ chat_pc = "authenticated"
    /\ http_request' = NoRequest
    /\ \E m \in ChatMessages, a \in ChatAnswers, creds \in Outcomes :
          LET result == classify_intent(m, a.gen)
              made == << Call("generate_text", "classify_intent", 0, a.gen.kind = "return"),
                         Call("get_credentials", "", 0, creds = "ok") >>
          IN  /\ request_message' = m
              /\ intent_result' = result
              /\ calls' = made
              /\ IF creds = "raise"
                   THEN /\ response' = HTTP500(ECredentials)
                        /\ response_data' = <<>>
                        /\ chat_pc' = "done"
                   ELSE /\ response' = NoResponse
                        /\ response_data' =
                              [intent |-> DictGet(result, "intent", PNone),
                               confidence |-> DictGet(result, "confidence", PNone),
                               message |-> <<>>]
                        /\ chat_pc' = "dispatch"
    /\ UNCHANGED <<inbox, presented, user_data>>
    /\ UNCHANGED other_than_chat

\* main.py:471-484, the READ_EMAILS branch.  A limit that is no positive
\* integer is refused by the mail API.
ChatReadEmails ==
    /\ chat_pc = "dispatch"
    /\ intent = PStr("READ_EMAILS")
    /\ IF params.t # "dict"
         THEN Fail(EAttributeGet(params), <<>>)
         ELSE LET limit == OrElse(DictGet(params, "limit", PNone), PInt(5))
                  valid == limit.t = "int" /\ limit.n >= 1
                  n == IF valid THEN limit.n ELSE 0
              IN  \E mb \in Outcomes :
                    IF mb = "raise" \/ ~valid
                      THEN Fail(EMailbox, <<Call("fetch_emails", "", n, FALSE)>>)
                      ELSE LET emails == fetch_emails(n)
                           IN  \E sg \in [1..Len(emails) -> SummaryAnswers] :
                                 /\ Respond(
                                      [emails |-> [i \in 1..Len(emails) |->
                                                      [id |-> emails[i],
                                                       ai_summary |-> summarize_email(sg[i])]],
                                       message |-> <<"Here are your last ", str(Len(emails)), " emails:">>]
                                        @@ response_data,
                                      <<Call("fetch_emails", "", n, TRUE)>> \o
                                        [i \in 1..Len(emails) |->
                                            Call("summarize_email", emails[i], i, sg[i].kind = "return")])
                                 /\ UNCHANGED inbox
                                 /\ Present(emails)
    /\ UNCHANGED <<http_request, user_data>>
    /\ UNCHANGED other_than_chat

RECURSIVE FirstOccurrences(_)
\* The messages of a sequence, each once, in order of first appearance.
FirstOccurrences(s) ==
    IF s = <<>>
      THEN <<>>
      ELSE LET front == FirstOccurrences(SubSeq(s, 1, Len(s) - 1))
               last == s[Len(s)]
           IN  IF \E i \in DOMAIN front : front[i] = last THEN front ELSE Append(front, last)

\* categories.values(), flattened: Work, Personal, Promotions, Urgent
BucketOrder(categories) ==
    categories["Work"] \o categories["Personal"] \o categories["Promotions"] \o categories["Urgent"]

\* main.py:486-508, the CATEGORIZE branch.  A message gets its ai_summary the
\* first time the loops over the buckets meet it; the buckets and the fetched
\* list hold the same message objects.
ChatCategorize ==
    /\ chat_pc = "dispatch"
    /\ intent = PStr("CATEGORIZE")
    /\ IF params.t # "dict"
         THEN Fail(EAttributeGet(params), <<>>)
         ELSE LET limit == OrElse(DictGet(params, "limit", PNone), PInt(20))
                  valid == limit.t = "int" /\ limit.n >= 1
                  n == IF valid THEN limit.n ELSE 0
              IN  \E mb \in Outcomes :
                    IF mb = "raise" \/ ~valid
                      THEN Fail(EMailbox, <<Call("fetch_emails", "", n, FALSE)>>)
                      ELSE LET emails == fetch_emails(n)
                           IN  \E ca \in CategorizeAnswers, dg \in SummaryAnswers :
                                 LET categories == categorize_emails(emails, ca.gen)
                                     todo == FirstOccurrences(BucketOrder(categories))
                                 IN  \E sg \in [1..Len(todo) -> SummaryAnswers] :
                                       LET summary(id) ==
                                             summarize_email(sg[CHOOSE k \in DOMAIN todo : todo[k] = id])
                                       IN
                                       /\ Respond(
                                            [categories |->
                                                [c \in CategoryNames |->
                                                    [i \in 1..Len(categories[c]) |->
                                                        [id |-> categories[c][i],
                                                         ai_summary |-> summary(categories[c][i])]]],
                                             digest |->
                                                IF emails = <<>>
                                                  THEN <<"No emails to summarize for today.">>
                                                  ELSE generate_daily_digest(dg),
                                             message |-> <<"Here's your categorized email overview:">>]
                                              @@ response_data,
                                            <<Call("fetch_emails", "", n, TRUE)>> \o
                                              (IF emails = <<>>
                                                 THEN <<>>
                                                 ELSE <<Call("generate_text", "categorize_emails", 0,
                                                             ca.gen.kind = "return")>>) \o
                                              [i \in 1..Len(todo) |->
                                                  Call("summarize_email", todo[i], i, sg[i].kind = "return")] \o
                                              (IF emails = <<>>
                                                 THEN <<>>
                                                 ELSE <<Call("generate_text", "generate_daily_digest", 0,
                                                             dg.kind = "return")>>))
                                       /\ UNCHANGED inbox
                                       /\ Present(BucketOrder(categories))
    /\ UNCHANGED <<http_request, user_data>>
    /\ UNCHANGED other_than_chat

\* int(v): [ok |-> FALSE] is ValueError or TypeError
IntOf(v) ==
    CASE v.t = "int" -> [ok |-> TRUE, n |-> v.n]
      [] v.t = "float" -> [ok |-> TRUE, n |-> IF v.n >= 0 THEN v.n \div 10 ELSE -((-v.n) \div 10)]
      [] v.t = "str" /\ v.s \in {"1", "2", "3"} ->
            [ok |-> TRUE, n |-> CHOOSE k \in 1..3 : Digits[k + 1] = v.s]
      [] OTHER -> [ok |-> FALSE, n |-> 0]

\* The term an f-string puts into the query for a parameter value.
TermOf(v) == IF v.t = "str" THEN v.s ELSE "(not a string)"

\* GmailService.fetch_emails_with_query(query, max_results=1): the most recent
\* message whose header matches the term, if any.
Search(field, term) ==
    LET hits == {i \in DOMAIN inbox :
                    IF field = "from" THEN SenderOf(inbox[i]) = term ELSE SubjectOf(inbox[i]) = term}
    IN  IF hits = {} THEN <<>> ELSE <<inbox[CHOOSE i \in hits : \A k \in hits : i <= k]>>

Remove(s, id) ==
    LET keep == {i \in DOMAIN s : s[i] # id}
        F[i \in 0..Len(s)] ==
            IF i = 0 THEN <<>> ELSE IF i \in keep THEN Append(F[i - 1], s[i]) ELSE F[i - 1]
    IN  F[Len(s)]

\* Steps of the resolution: what was found so far (found is <<>> or <<id>>),
\* the calls made, and the exception that ended it (error is <<>> or <<e>>).
Found(found, made, error) == [found |-> found, made |-> made, error |-> error]

\* ByIndex with a guess: an index past the end takes the last message fetched.
ByIndex_Mut(email_index, mb) ==
    IF email_index.t = "none" \/ ~IntOf(email_index).ok \/ IntOf(email_index).n - 1 < 0
      THEN Found(<<>>, <<>>, <<>>)
      ELSE LET index == IntOf(email_index).n - 1
               emails == fetch_emails(10)
           IN  IF mb = "raise"
                 THEN Found(<<>>, <<Call("fetch_emails", "", 10, FALSE)>>, <<EMailbox>>)
                 ELSE Found(IF emails = <<>> THEN <<>> ELSE <<emails[Min(index + 1, Len(emails))]>>,
                            <<Call("fetch_emails", "", 10, TRUE)>>, <<>>)

\* main.py:520-530, option 1
ByIndex(email_index, mb) ==
    IF email_index.t = "none" \/ ~IntOf(email_index).ok \/ IntOf(email_index).n - 1 < 0
      THEN Found(<<>>, <<>>, <<>>)
      ELSE LET index == IntOf(email_index).n - 1
               emails == fetch_emails(10)
           IN  IF mb = "raise"
                 THEN Found(<<>>, <<Call("fetch_emails", "", 10, FALSE)>>, <<EMailbox>>)
                 ELSE Found(IF index < Len(emails) THEN <<emails[index + 1]>> ELSE <<>>,
                            <<Call("fetch_emails", "", 10, TRUE)>>, <<>>)

\* ByQuery without the `not email_to_delete` test: the search runs although an
\* earlier option found a message.
ByQuery_Mut(before, field, value, mb) ==
    IF before.error # <<>> \/ ~Truthy(value)
      THEN before
      ELSE IF mb = "raise"
             THEN Found(<<>>, before.made \o <<Call("search", field, 1, FALSE)>>, <<EMailbox>>)
             ELSE Found(IF Search(field, TermOf(value)) # <<>>
                          THEN Search(field, TermOf(value))
                          ELSE before.found,
                        before.made \o <<Call("search", field, 1, TRUE)>>, <<>>)

\* main.py:532-546, options 2 and 3
ByQuery(before, field, value, mb) ==
    IF before.error # <<>> \/ before.found # <<>> \/ ~Truthy(value)
      THEN before
      ELSE IF mb = "raise"
             THEN Found(<<>>, before.made \o <<Call("search", field, 1, FALSE)>>, <<EMailbox>>)
             ELSE Found(Search(field, TermOf(value)),
                        before.made \o <<Call("search", field, 1, TRUE)>>, <<>>)

ClarificationMessage_Mut == <<>>

ClarificationMessage ==
    <<"I couldn't find an email matching that description. Please try: ...">>

\* main.py:510-571, the DELETE_EMAIL branch
\* main.py:556-561, what the response says of the deletion
Deleted(email_id) ==
    [message |-> <<"Successfully deleted email from **", SenderOf(email_id), "**: \"",
                   SubjectOf(email_id), "\"">>,
     deleted_email |-> [id |-> email_id,
                        subject |-> SubjectOf(email_id),
                        sender |-> SenderOf(email_id)]]

\* Trash with a failure of the mailbox call caught and the deletion reported.
Trash_Mut(email_id, made, mb) ==
    /\ Respond(Deleted(email_id) @@ response_data,
               made \o <<Call("delete_email", email_id, 0, mb = "ok")>>)
    /\ inbox' = IF mb = "ok" THEN Remove(inbox, email_id) ELSE inbox
    /\ UNCHANGED presented

\* main.py:549-561, the message found is moved to the trash
Trash(email_id, made, mb) ==
    IF mb = "raise"
      THEN Fail(EMailbox, made \o <<Call("delete_email", email_id, 0, FALSE)>>)
      ELSE /\ Respond(Deleted(email_id) @@ response_data,
                      made \o <<Call("delete_email", email_id, 0, TRUE)>>)
           /\ inbox' = Remove(inbox, email_id)
           /\ UNCHANGED presented

ChatDeleteEmail ==
    /\ chat_pc = "dispatch"
    /\ intent = PStr("DELETE_EMAIL")
    /\ IF params.t # "dict"
         THEN Fail(EAttributeGet(params), <<>>)
         ELSE \E mb1, mb2, mb3, mb4 \in Outcomes :
                LET sender == DictGet(params, "sender", PNone)
                    subject_keyword == DictGet(params, "subject_keyword", PNone)
                    email_index == DictGet(params, "email_index", PNone)
                    resolved == ByQuery(ByQuery(ByIndex(email_index, mb1), "from", sender, mb2),
                                        "subject", subject_keyword, mb3)
                IN  IF resolved.error # <<>>
                      THEN Fail(resolved.error[1], resolved.made)
                      ELSE IF resolved.found = <<>>
                             THEN /\ Respond([message |-> ClarificationMessage,
                                              requires_clarification |-> TRUE] @@ response_data,
                                             resolved.made)
                                  /\ UNCHANGED <<inbox, presented>>
                             ELSE Trash(resolved.found[1], resolved.made, mb4)
    /\ UNCHANGED <<http_request, user_data>>
    /\ UNCHANGED other_than_chat

UserNames == {"Ada", "there"}

\* main.py:573-583, the GENERAL_CHAT branch
ChatGeneralChat ==
    /\ chat_pc = "dispatch"
    /\ intent = PStr("GENERAL_CHAT")
    /\ \E user_name \in UserNames :
          Respond([message |-> <<"Hello ", user_name, "! I'm your AI email assistant. ...">>]
                    @@ response_data, <<>>)
    /\ UNCHANGED <<inbox, presented>>
    /\ UNCHANGED <<http_request, user_data>>
    /\ UNCHANGED other_than_chat

DispatchedIntents == {PStr("READ_EMAILS"), PStr("CATEGORIZE"), PStr("DELETE_EMAIL"), PStr("GENERAL_CHAT")}

\* The else branch raising for a value it does not know.
ChatOther_Mut ==
    /\ chat_pc = "dispatch"
    /\ intent \notin DispatchedIntents
    /\ Fail(<<"KeyError: ">>, <<>>)
    /\ UNCHANGED <<http_request, user_data>>
    /\ UNCHANGED other_than_chat

\* main.py:585-586, the else branch
ChatOther ==
    /\ chat_pc = "dispatch"
    /\ intent \notin DispatchedIntents
    /\ Respond([message |-> <<"I'm not sure what you'd like me to do. Try asking me to show your emails, create a digest, or reply to a message.">>]
                 @@ response_data, <<>>)
    /\ UNCHANGED <<inbox, presented>>
    /\ UNCHANGED <<http_request, user_data>>
    /\ UNCHANGED other_than_chat

\* main.py:389-391, the except block of send_email
SendHTTP500(e) ==
    [status |-> "error", code |-> 500, detail |-> <<"Failed to send email: ">> \o e, data |-> <<>>]

\* main.py:350-391, the /emails/send endpoint
SendEmail ==
    /\ chat_pc = "authenticated"
    /\ http_request' = NoRequest
    /\ \E creds, mb \in Outcomes :
          /\ calls' = IF creds = "raise"
                        THEN <<Call("get_credentials", "", 0, FALSE)>>
                        ELSE <<Call("get_credentials", "", 0, TRUE),
                               Call("send_email", "", 0, mb = "ok")>>
          /\ response' = IF creds = "raise"
                           THEN SendHTTP500(ECredentials)
                           ELSE IF mb = "raise"
                                  THEN SendHTTP500(EMailbox)
                                  ELSE OkResponse([message |-> <<"Email sent successfully">>,
                                                   email_id |-> "sent",
                                                   thread_id |-> PNone])
    /\ chat_pc' = "done"
    /\ UNCHANGED <<request_message, intent_result, response_data, inbox, presented, user_data>>
    /\ UNCHANGED other_than_chat

\* The next request.
ChatNext ==
    /\ chat_pc = "done"
    /\ chat_pc' = "idle"
    /\ request_message' = <<>>
    /\ intent_result' = EmptyDict
    /\ response_data' = <<>>
    /\ response' = NoResponse
    /\ calls' = <<>>
    /\ http_request' = NoRequest
    /\ user_data' = PNone
    /\ UNCHANGED <<inbox, presented>>
    /\ UNCHANGED other_than_chat

ChatInit ==
    /\ chat_pc = "idle"
    /\ http_request = NoRequest
    /\ user_data = PNone
    /\ request_message = <<>>
    /\ intent_result = EmptyDict
    /\ response_data = <<>>
    /\ response = NoResponse
    /\ calls = <<>>

\* The mailbox between two requests: a new message arrives in the inbox.
MailArrives ==
    /\ chat_pc = "idle"
    /\ Len(inbox) < MaxEmails
    /\ \E id \in EmailIds :
          /\ \A i \in DOMAIN inbox : inbox[i] # id
          /\ inbox' = <<id>> \o inbox
    /\ UNCHANGED <<chat_pc, request_message, intent_result, response_data, response, calls, presented>>
    /\ UNCHANGED <<http_request, user_data>>
    /\ UNCHANGED other_than_chat

NextChat ==
    \/ GetCurrentUser
    \/ ChatClassify
    \/ ChatReadEmails
    \/ ChatCategorize
    \/ ChatDeleteEmail
    \/ ChatGeneralChat
    \/ ChatOther
    \/ SendEmail
    \/ ChatNext

----------------------------------------------------------------------------
(* Specifications *)

\* The /chat endpoint, over the mailboxes
Init ==
    /\ GenInit /\ TaskInit /\ ChatInit /\ ServiceReady /\ CallsInit
    /\ inbox \in EmailLists
    /\ presented = NotObserved

Spec == Init /\ [][NextChat]_vars

InitNoMail == GenInit /\ TaskInit /\ ChatInit /\ ServiceReady /\ CallsInit /\ inbox = <<>> /\ presented = NotObserved

\* The providers' generate_text
SpecGen == InitNoMail /\ [][NextGen]_vars

\* classify_intent and categorize_emails, over their inputs
\* The event loop resumes a generate_text call when the endpoint call it awaits
\* has answered or raised and when its sleep is over, and runs it on to its
\* next await or to its end.
GeminiFairness ==
    /\ WF_vars(GeminiAttemptOk \/ GeminiAttemptFail)
    /\ WF_vars(GeminiWake)
    /\ WF_vars(GeminiExit)

SpecGenFair == InitNoMail /\ [][NextGen]_vars /\ GeminiFairness

SpecTask == InitNoMail /\ [][NextTask]_vars

\* The /chat endpoint over several turns, with the listing last presented
\* observed and mail arriving between the turns
InitListing ==
    /\ GenInit /\ TaskInit /\ ChatInit /\ ServiceReady /\ CallsInit
    /\ inbox \in EmailLists
    /\ presented = <<>>

NextListing ==
    \/ NextChat
    \/ MailArrives

SpecListing == InitListing /\ [][NextListing]_vars

\* Two generate_text calls interleaving on the one GeminiProvider instance
SpecCalls == InitNoMail /\ [][NextCalls]_vars

\* The construction of the global AIService, over the settings
InitService == GenInit /\ TaskInit /\ ChatInit /\ ServiceInit /\ CallsInit /\ inbox = <<>> /\ presented = NotObserved

SpecService == InitService /\ [][NextService]_vars

----------------------------------------------------------------------------
(* Properties of the providers *)

EndpointEvents == {"ok", "none", "fail"}

Attempts == Cardinality({i \in DOMAIN gen_log : gen_log[i].ev \in EndpointEvents})

Sleeps == Cardinality({i \in DOMAIN gen_log : gen_log[i].ev = "sleep"})

FailureIndexes == {i \in DOMAIN gen_log : gen_log[i].ev = "fail"}

LastFailure == gen_log[CHOOSE i \in FailureIndexes : \A k \in FailureIndexes : k <= i]

OnlyRateLimitFailures ==
    /\ \A i \in DOMAIN gen_log : gen_log[i].ev \in {"fail", "sleep"}
    /\ \A i \in FailureIndexes : gen_log[i].s \in RateLimitErrors

\* C1: when every endpoint call of a GeminiProvider.generate_text call fails with
\* a rate-limit signal, the call never makes more than 4 attempts, stops
\* attempting after the 4th failure, and when it ends it has made exactly 4
\* attempts (1 initial + 3 retries) and raises the last error to its caller.
C1_RetryBound ==
    (provider = "gemini" /\ OnlyRateLimitFailures) =>
        /\ Attempts <= 4
        /\ (Attempts = 4 /\ gen_log[Len(gen_log)].ev = "fail") => pc_gen \in {"exit", "raised"}
        /\ pc_gen \in {"exit", "raised"} => Attempts = 4
        /\ pc_gen = "raised" => gen_result = Raised(LastFailure.s)

C1_Witness ==
    /\ provider = "gemini"
    /\ pc_gen = "raised"
    /\ OnlyRateLimitFailures
    /\ Attempts = 4
    /\ gen_result.kind = "raise"

\* C2: in GeminiProvider.generate_text a failure that is not a rate-limit or
\* quota signal is the last event of the call (no sleep and no attempt follows
\* it, whether or not rate-limit failures were retried before it), the call is
\* then leaving or has left by raising, and the error a Gemini call raises is
\* the last error that occurred.
C2_NonRetryableEndsCall ==
    provider = "gemini" =>
        /\ \A i \in FailureIndexes :
              gen_log[i].s \in OtherErrors =>
                  /\ i = Len(gen_log)
                  /\ pc_gen \in {"exit", "raised"}
        /\ pc_gen = "raised" => gen_result = Raised(LastFailure.s)

C2_Witness ==
    /\ provider = "gemini"
    /\ pc_gen = "raised"
    /\ Sleeps = 2
    /\ Attempts = 3
    /\ gen_log[Len(gen_log)].s \in OtherErrors
    /\ gen_result = Raised(gen_log[Len(gen_log)].s)

\* C3: no provider substitutes a default string: a generate_text call of any of
\* the three providers that returned a string returned the trimmed text of the
\* endpoint answer that ended the call, and a call whose last endpoint answer
\* was a failure (or carried no text) never ends by returning.
C3_NoDefaultString ==
    /\ pc_gen = "returned" =>
          /\ gen_result.kind = "return"
          /\ gen_log # <<>>
          /\ gen_log[Len(gen_log)].ev = "ok"
          /\ gen_result.val = strip(gen_log[Len(gen_log)].s)
    /\ (gen_log # <<>> /\ gen_log[Len(gen_log)].ev \in {"fail", "none"}) =>
          /\ pc_gen # "returned"
          /\ gen_result.kind # "return"
    /\ pc_gen = "raised" => gen_result.kind = "raise"

C3_Witness ==
    /\ provider \in {"openai", "groq"}
    /\ pc_gen = "raised"
    /\ gen_log[Len(gen_log)].ev = "fail"
    /\ gen_result = Raised(gen_log[Len(gen_log)].s)

SleepIndexes == {i \in DOMAIN gen_log : gen_log[i].ev = "sleep"}

\* The number of the wait logged at position i of gen_log: 1 for the first.
WaitNumber(i) == Cardinality({k \in SleepIndexes : k <= i})

OkIndexes == {i \in DOMAIN gen_log : gen_log[i].ev = "ok"}

GeminiCallEnded == pc_gen \in {"returned", "raised"}

\* C28: GeminiProvider.generate_text terminates for every sequence of endpoint
\* outcomes: it makes at most 4 attempts, returns the text of the first
\* successful attempt without a further attempt, and otherwise raises.
C28_GeminiTerminates ==
    /\ [](provider = "gemini" =>
            /\ Attempts <= 4
            /\ \A i \in OkIndexes :
                  /\ i = Len(gen_log)
                  /\ pc_gen = "returned"
                  /\ gen_result = Returned(strip(gen_log[i].s))
            /\ (GeminiCallEnded /\ OkIndexes = {}) => gen_result.kind = "raise")
    /\ (provider = "gemini" /\ pc_gen = "await") ~> GeminiCallEnded

\* A call that returned the text of its 4th attempt, after three waits.
C28_Witness ==
    /\ provider = "gemini"
    /\ pc_gen = "returned"
    /\ Attempts = 4
    /\ Sleeps = 3
    /\ gen_result = Returned(strip(gen_log[Len(gen_log)].s))

----------------------------------------------------------------------------
(* Properties of classify_intent and categorize_emails *)

\* The provider call raised, the answer is no JSON document, or the document
\* is no object: the cases in which classify_intent leaves its try block by an
\* exception.
ClassificationFailed ==
    \/ task_in.answer.gen.kind = "raise"
    \/ ~json_loads(StripFence(task_in.answer.gen.val)).ok
    \/ json_loads(StripFence(task_in.answer.gen.val)).v.t # "dict"

LowerMessage == lower(task_in.user_message)

HasReadKeyword ==
    contains(LowerMessage, KwMail) \/ contains(LowerMessage, KwInbox) \/ contains(LowerMessage, KwShow)

HasCategorizeKeyword ==
    contains(LowerMessage, KwDigest) \/ contains(LowerMessage, KwSummar) \/ contains(LowerMessage, KwCategor)

\* C5: for a user message whose lowercased text contains "inbox" (or "mail" or
\* "show"), when the provider call or the parse fails, classify_intent returns
\* intent READ_EMAILS with parameters limit 5 and confidence 0.5.
C5_InboxFallback ==
    (task = "classify_intent" /\ ClassificationFailed /\ HasReadKeyword) =>
        /\ task_out.t = "dict"
        /\ DOMAIN task_out.f = {"intent", "parameters", "confidence"}
        /\ task_out.f.intent = PStr("READ_EMAILS")
        /\ task_out.f.parameters = PDict([limit |-> PInt(5)])
        /\ task_out.f.confidence = PFloat(5)

C5_Witness ==
    /\ task = "classify_intent"
    /\ task_in.answer.gen.kind = "raise"
    /\ contains(LowerMessage, KwInbox)
    /\ contains(LowerMessage, KwDigest)
    /\ task_out.f.intent = PStr("READ_EMAILS")

IsCategorizeFallback ==
    /\ task_out.t = "dict"
    /\ DOMAIN task_out.f = {"intent", "parameters", "confidence"}
    /\ task_out.f.intent = PStr("CATEGORIZE")
    /\ task_out.f.parameters = PDict([limit |-> PInt(20)])
    /\ task_out.f.confidence = PFloat(5)

\* C6 as stated: for any user message whose lowercased text contains "digest",
\* "summar" or "categor", when the provider call or the parse fails, the
\* fallback result is intent CATEGORIZE with limit 20 and confidence 0.5.
C6_AsStated ==
    (task = "classify_intent" /\ ClassificationFailed /\ HasCategorizeKeyword) =>
        IsCategorizeFallback

\* C6 amended: for any user message whose lowercased text contains "digest",
\* "summar" or "categor" and none of "mail", "inbox", "show", when the provider
\* call or the parse fails, the fallback result is intent CATEGORIZE with limit
\* 20 and confidence 0.5.
C6_CategorizeFallback ==
    (task = "classify_intent" /\ ClassificationFailed /\ HasCategorizeKeyword /\ ~HasReadKeyword) =>
        IsCategorizeFallback

C6_Witness ==
    /\ task = "classify_intent"
    /\ ClassificationFailed
    /\ task_in.answer.gen.kind = "return"
    /\ contains(LowerMessage, KwSummar)
    /\ ~HasReadKeyword
    /\ IsCategorizeFallback

\* C9: for classify_intent and categorize_emails, an answer that is a JSON
\* document wrapped in a markdown code fence (with or without the "json" tag)
\* gives the same result as the same document unwrapped.
C9_FenceRoundTrip ==
    (task_in.answer.doc # 0 /\ task_in.answer.style \in FenceStyles) =>
        /\ task = "classify_intent" =>
              task_out = classify_intent(task_in.user_message,
                                         Returned(JsonDocs[task_in.answer.doc].text))
        /\ task = "categorize_emails" =>
              task_out = categorize_emails(task_in.emails,
                                           Returned(JsonDocs[task_in.answer.doc].text))

InSomeBucket(email) ==
    \E c \in CategoryNames : \E i \in DOMAIN task_out[c] : task_out[c][i] = email

CategorizationFailed ==
    \/ task_in.answer.gen.kind = "raise"
    \/ ~json_loads(StripFence(task_in.answer.gen.val)).ok

\* C10: for every non-empty input sequence and every model output, each input
\* message is in at least one bucket of the CategoryMap categorize_emails
\* returns; and when the provider call or the parse fails, every message is in
\* the Personal bucket and in no other bucket.
C10_EveryMessageBucketed ==
    (task = "categorize_emails" /\ task_in.emails # <<>>) =>
        /\ \A i \in DOMAIN task_in.emails : InSomeBucket(task_in.emails[i])
        /\ CategorizationFailed => task_out = AllPersonal(task_in.emails)

----------------------------------------------------------------------------
(* Properties of the /chat endpoint *)

IntentKind ==
    {"READ_EMAILS", "GENERATE_REPLY", "SEND_EMAIL", "DELETE_EMAIL", "CATEGORIZE", "GENERAL_CHAT"}

\* The request is a /chat request (its first collaborator call is the classifier's).
ChatTurn == calls # <<>> /\ calls[1].op = "generate_text"

\* Every collaborator call of the turn after the classifier's returned.
DispatchCallsOk == \A i \in DOMAIN calls : i > 1 => calls[i].ok

\* C4: a chat turn never fails because of the classification step: whatever
\* the classifier's provider call gave (a raise, unparseable text, a document
\* that is no object, an object with missing or null fields), a turn in which
\* every other collaborator call returned ends with a normal response.
C4_ClassificationNeverFailsTurn ==
    (chat_pc = "done" /\ ChatTurn /\ DispatchCallsOk) => response.status = "ok"

\* C7: the intent of every classification result and of every chat response is
\* one of the six IntentKind values.
C7_IntentInClosedSet ==
    /\ chat_pc = "dispatch" =>
          /\ "intent" \in DOMAIN intent_result.f
          /\ intent_result.f.intent \in {PStr(k) : k \in IntentKind}
    /\ (ChatTurn /\ response.status = "ok") => response.data.intent \in {PStr(k) : k \in IntentKind}

InUnitInterval(v) ==
    \/ v.t = "float" /\ 0 <= v.n /\ v.n <= 10
    \/ v.t = "int" /\ v.n \in {0, 1}

\* C8: the confidence of every IntentResult and of every chat response is a
\* number in [0,1].
C8_ConfidenceInUnitInterval ==
    /\ chat_pc = "dispatch" =>
          /\ "confidence" \in DOMAIN intent_result.f
          /\ InUnitInterval(intent_result.f.confidence)
    /\ (ChatTurn /\ response.status = "ok") => InUnitInterval(response.data.confidence)

----------------------------------------------------------------------------
(* Properties of the DELETE_EMAIL branch.  They are about one step of the     *)
(* handler: the unprimed state is the turn before its dispatch (the mailbox   *)
(* as the turn's searches see it), the primed state is the turn ended.        *)

\* The turn is about to run the DELETE_EMAIL branch.
DeleteTurn ==
    /\ chat_pc = "dispatch"
    /\ intent = PStr("DELETE_EMAIL")
    /\ params.t = "dict"

GivenIndex == DictGet(params, "email_index", PNone)
GivenSender == DictGet(params, "sender", PNone)
GivenSubject == DictGet(params, "subject_keyword", PNone)

CallsTo(log, op) == {i \in DOMAIN log : log[i].op = op}
SearchesOf(log, field) == {i \in CallsTo(log, "search") : log[i].target = field}
Trashed(log) == {log[i].target : i \in CallsTo(log, "delete_email")}
AllOk(log) == \A i \in DOMAIN log : i > 1 => log[i].ok

\* What each option yields in the mailbox of the turn: <<>> or <<message>>.
IndexYields ==
    IF GivenIndex.t # "none" /\ IntOf(GivenIndex).ok
         /\ IntOf(GivenIndex).n >= 1 /\ IntOf(GivenIndex).n <= Len(fetch_emails(10))
      THEN <<fetch_emails(10)[IntOf(GivenIndex).n]>>
      ELSE <<>>

SenderYields == IF Truthy(GivenSender) THEN Search("from", TermOf(GivenSender)) ELSE <<>>

SubjectYields == IF Truthy(GivenSubject) THEN Search("subject", TermOf(GivenSubject)) ELSE <<>>

\* The message of the first option that yields one.
Winner ==
    IF IndexYields # <<>> THEN IndexYields
    ELSE IF SenderYields # <<>> THEN SenderYields
    ELSE SubjectYields

C11_Step ==
    (DeleteTurn /\ chat_pc' = "done") =>
        /\ IndexYields # <<>> => CallsTo(calls', "search") = {}
        /\ (IndexYields = <<>> /\ SenderYields # <<>>) => SearchesOf(calls', "subject") = {}
        /\ \A i \in CallsTo(calls', "fetch_emails"), k \in CallsTo(calls', "search") : i < k
        /\ \A i \in SearchesOf(calls', "from"), k \in SearchesOf(calls', "subject") : i < k
        /\ \A i \in CallsTo(calls', "fetch_emails") \cup CallsTo(calls', "search"),
              k \in CallsTo(calls', "delete_email") : i < k
        /\ Trashed(calls') \subseteq {Winner[i] : i \in DOMAIN Winner}
        /\ (AllOk(calls') /\ Winner # <<>>) =>
              /\ Trashed(calls') = {Winner[1]}
              /\ response'.status = "ok"
              /\ response'.data.deleted_email.id = Winner[1]

\* C11: in a DELETE_EMAIL turn the target is resolved in the order email_index,
\* sender, subject_keyword and the first option that yields a message wins: once
\* the index resolves to a message no search is called, once the sender search
\* returns a message the subject search is not called, and the message trashed
\* is the one the winning option yielded.
C11_PriorityOrder == [][C11_Step]_vars

\* A turn with email_index 2 and sender "john" that trashed the second message,
\* which is not from john, without any search.
C11_Witness ==
    /\ chat_pc = "done"
    /\ intent = PStr("DELETE_EMAIL")
    /\ params.t = "dict"
    /\ GivenIndex = PInt(2)
    /\ GivenSender = PStr("john")
    /\ response.status = "ok"
    /\ "deleted_email" \in DOMAIN response.data
    /\ response.data.deleted_email.sender # "john"
    /\ CallsTo(calls, "search") = {}
    /\ Cardinality(CallsTo(calls, "delete_email")) = 1

\* An email_index was given and it is no integer, is zero or negative, or
\* exceeds the number of messages fetched.
InvalidIndex ==
    /\ GivenIndex.t # "none"
    /\ \/ GivenIndex.t # "int"
       \/ GivenIndex.n <= 0
       \/ GivenIndex.n > Len(fetch_emails(10))

\* The message the sender option, then the subject option yields.
WinnerWithoutIndex == IF SenderYields # <<>> THEN SenderYields ELSE SubjectYields

C12_Step ==
    (DeleteTurn /\ InvalidIndex /\ chat_pc' = "done" /\ AllOk(calls')) =>
        /\ response'.status = "ok"
        /\ Truthy(GivenSender) => SearchesOf(calls', "from") # {}
        /\ (Truthy(GivenSubject) /\ SenderYields = <<>>) => SearchesOf(calls', "subject") # {}
        /\ Trashed(calls') = {WinnerWithoutIndex[i] : i \in DOMAIN WinnerWithoutIndex}
        /\ WinnerWithoutIndex = <<>> => "requires_clarification" \in DOMAIN response'.data
        /\ WinnerWithoutIndex # <<>> =>
              /\ "deleted_email" \in DOMAIN response'.data
              /\ response'.data.deleted_email.id = WinnerWithoutIndex[1]

\* C12: in a DELETE_EMAIL turn an email_index that is not an integer, is zero or
\* negative, or exceeds the number of messages fetched is skipped without error:
\* in a turn whose mailbox calls all returned, the sender option and then the
\* subject option resolve the target exactly as if no index had been given.
C12_InvalidIndexSkipped == [][C12_Step]_vars

\* The same for the invalid indexes other than fractional numbers.
C12_ExceptFractions == [][(DeleteTurn /\ GivenIndex.t # "float") => C12_Step]_vars

C13_Step ==
    (DeleteTurn /\ Winner = <<>> /\ chat_pc' = "done") =>
        /\ CallsTo(calls', "delete_email") = {}
        /\ inbox' = inbox
        /\ AllOk(calls') => response'.status = "ok"
        /\ response'.status = "ok" =>
              /\ "requires_clarification" \in DOMAIN response'.data
              /\ response'.data.requires_clarification = TRUE
              /\ "deleted_email" \notin DOMAIN response'.data

\* C13: in a DELETE_EMAIL turn where no option yields a message, the response
\* has requires_clarification true and no deleted_email field, and the mailbox
\* trash operation is not called during the turn.
C13_NoMatchAsksClarification == [][C13_Step]_vars

\* A turn with only the sender "nobody@x.com", whose search returned nothing.
C13_Witness ==
    /\ chat_pc = "done"
    /\ intent = PStr("DELETE_EMAIL")
    /\ params.t = "dict"
    /\ GivenSender = PStr("nobody@x.com")
    /\ GivenIndex = PNone
    /\ GivenSubject = PNone
    /\ inbox # <<>>
    /\ \E i \in SearchesOf(calls, "from") : calls[i].ok
    /\ CallsTo(calls, "delete_email") = {}
    /\ response.status = "ok"
    /\ response.data.requires_clarification = TRUE
    /\ "deleted_email" \notin DOMAIN response.data

----------------------------------------------------------------------------
(* Properties of the responses and failures of a turn *)

FailedCalls(log, op) == {i \in CallsTo(log, op) : ~log[i].ok}

\* C14: if the mailbox trash call fails in a DELETE_EMAIL turn, or the send call
\* fails in the send endpoint, the request fails: no success response, no
\* confirmation message and no deleted_email field is returned.
C14_MutationFailurePropagates ==
    (chat_pc = "done" /\ FailedCalls(calls, "delete_email") \cup FailedCalls(calls, "send_email") # {}) =>
        /\ response.status = "error"
        /\ response.code = 500
        /\ response.data = <<>>

\* A DELETE_EMAIL turn whose search found a message and whose trash call raised.
C14_Witness ==
    /\ chat_pc = "done"
    /\ ChatTurn
    /\ intent = PStr("DELETE_EMAIL")
    /\ \E i \in CallsTo(calls, "search") : calls[i].ok
    /\ FailedCalls(calls, "delete_email") # {}
    /\ response.status = "error"

\* Texts of errors the mailbox API and the network raise.
UpstreamErrorTexts == {EMailbox}

\* C15: the text of a raw provider or mailbox/network error never appears in
\* what is returned to the user: a failure surfaced by a chat turn carries none
\* of the upstream error texts.
C15_NoRawErrorText ==
    (ChatTurn /\ response.status = "error") =>
        \A e \in UpstreamErrorTexts : ~contains(response.detail, e)

\* The provider calls made after classification: the summarize, categorize and
\* digest calls of the dispatch.
DispatchProviderCalls == {i \in DOMAIN calls : i > 1 /\ calls[i].op \in {"summarize_email", "generate_text"}}

\* C16: a provider failure during dispatch (a summarize, categorize or digest
\* call made after classification in a READ_EMAILS or CATEGORIZE turn) makes the
\* request fail with the "Failed to process message" error.
C16_DispatchProviderFailurePropagates ==
    (chat_pc = "done" /\ ChatTurn /\ \E i \in DispatchProviderCalls : ~calls[i].ok) =>
        /\ response.status = "error"
        /\ startswith(response.detail, <<"Failed to process message: ">>)

\* C17: every response a chat turn returns carries intent, confidence and
\* message, and message is a non-empty string, on every dispatch branch.
C17_ResponseHasMessage ==
    (ChatTurn /\ response.status = "ok") =>
        /\ {"intent", "confidence", "message"} \subseteq DOMAIN response.data
        /\ response.data.message # <<>>
        /\ \A i \in DOMAIN response.data.message : response.data.message[i] # ""

\* The response of a DELETE_EMAIL turn that found no message.
C17_Witness ==
    /\ chat_pc = "done"
    /\ ChatTurn
    /\ intent = PStr("DELETE_EMAIL")
    /\ response.status = "ok"
    /\ "requires_clarification" \in DOMAIN response.data
    /\ response.data.message # <<>>
    /\ response.data.intent = PStr("DELETE_EMAIL")

NotSureMessage ==
    <<"I'm not sure what you'd like me to do. Try asking me to show your emails, create a digest, or reply to a message.">>

\* C18: for an intent value other than READ_EMAILS, CATEGORIZE, DELETE_EMAIL and
\* GENERAL_CHAT (GENERATE_REPLY, SEND_EMAIL, unknown strings, a missing intent),
\* the turn makes no mailbox call and no further provider call, and once the
\* mailbox client is built it returns the "not sure" message and does not fail.
C18_OtherIntentGenericMessage ==
    (chat_pc = "done" /\ ChatTurn
       /\ intent \notin {PStr("READ_EMAILS"), PStr("CATEGORIZE"), PStr("DELETE_EMAIL"), PStr("GENERAL_CHAT")}) =>
        /\ Len(calls) = 2
        /\ calls[2].op = "get_credentials"
        /\ calls[2].ok =>
              /\ response.status = "ok"
              /\ response.data.message = NotSureMessage

\* A turn classified as SEND_EMAIL.
C18_Witness ==
    /\ chat_pc = "done"
    /\ ChatTurn
    /\ intent = PStr("SEND_EMAIL")
    /\ response.status = "ok"
    /\ response.data.message = NotSureMessage
    /\ Len(calls) = 2

\* The summarize calls of the turn, in the order they were made.
SummarizeCalls == SelectSeq(calls, LAMBDA c : c.op = "summarize_email")

\* The messages the turn's fetch_emails call returned (the mailbox is as it was).
Fetched == fetch_emails(calls[3].n)

\* Position of a message in the fetched list.
PositionOf(id) == CHOOSE k \in DOMAIN Fetched : Fetched[k] = id

\* C19: in READ_EMAILS and CATEGORIZE turns, messages are summarized one at a
\* time in the order the mailbox returned them: the k-th summarize call of the
\* turn is for the k-th fetched message, and the messages in the response keep
\* the fetched order.
C19_SummariesInFetchedOrder ==
    (chat_pc = "done" /\ ChatTurn /\ response.status = "ok"
       /\ intent \in {PStr("READ_EMAILS"), PStr("CATEGORIZE")}) =>
        /\ \A k \in DOMAIN SummarizeCalls : SummarizeCalls[k].target = Fetched[k]
        /\ intent = PStr("READ_EMAILS") =>
              /\ Len(response.data.emails) = Len(Fetched)
              /\ \A i \in DOMAIN Fetched : response.data.emails[i].id = Fetched[i]
        /\ intent = PStr("CATEGORIZE") =>
              \A c \in CategoryNames :
                  \A i, k \in DOMAIN response.data.categories[c] :
                      i < k => PositionOf(response.data.categories[c][i].id)
                                 <= PositionOf(response.data.categories[c][k].id)

\* The same for READ_EMAILS turns alone.
C19_ReadEmailsInOrder ==
    intent = PStr("READ_EMAILS") => C19_SummariesInFetchedOrder

----------------------------------------------------------------------------
(* Properties of the construction of AIService *)

\* The provider settings.AI_PROVIDER selects, lowercased.
Selected == lower(settings.AI_PROVIDER)

KnownProviderNames ==
    {<<"o", "p", "e", "n", "a", "i">>, <<"g", "e", "m", "i", "n", "i">>, <<"g", "r", "o", "q">>}

\* The credential setting of the selected provider: its name and its value.
CredentialName ==
    CASE Selected = <<"o", "p", "e", "n", "a", "i">> -> "OPENAI_API_KEY"
      [] Selected = <<"g", "e", "m", "i", "n", "i">> -> "GEMINI_API_KEY"
      [] Selected = <<"g", "r", "o", "q">> -> "GROQ_API_KEY"

Credential == settings[CredentialName]

\* The error says where to obtain a key: it gives an address after "Get free key at".
SaysWhereToObtain(error) ==
    \E i \in DOMAIN error :
        /\ error[i] = " Get free key at: "
        /\ i < Len(error)
        /\ error[i + 1] # ""

\* C20: when the credential of the selected provider is missing or empty,
\* constructing AIService fails for each of the three providers with an error
\* that names the missing credential and says where to obtain one, and no
\* provider instance is constructed; the credentials of the providers that are
\* not selected are not required.
C20_MissingCredentialFails ==
    (ai_service # NotConstructed /\ Selected \in KnownProviderNames) =>
        /\ ~Truthy(Credential) =>
              /\ ai_service.state = "failed"
              /\ ai_service.constructed = <<>>
              /\ contains(ai_service.error, <<CredentialName>>)
              /\ SaysWhereToObtain(ai_service.error)
        /\ Truthy(Credential) => ai_service.state = "built"

\* The same without the error's saying where to obtain a key.
C20_ExceptWhereToObtain ==
    (ai_service # NotConstructed /\ Selected \in KnownProviderNames) =>
        /\ ~Truthy(Credential) =>
              /\ ai_service.state = "failed"
              /\ ai_service.constructed = <<>>
              /\ contains(ai_service.error, <<CredentialName>>)
        /\ Truthy(Credential) => ai_service.state = "built"


\* The provider class a known name stands for.
ClassNamed(name) ==
    CASE name = <<"o", "p", "e", "n", "a", "i">> -> "openai"
      [] name = <<"g", "e", "m", "i", "n", "i">> -> "gemini"
      [] name = <<"g", "r", "o", "q">> -> "groq"

\* C21: constructing AIService with a provider name outside {openai, gemini,
\* groq} (compared after lowercasing) fails with a configuration error and
\* constructs no provider; with a known name and its credential present,
\* exactly one provider, the one named, is constructed.
C21_UnknownProviderFails ==
    ai_service # NotConstructed =>
        /\ Selected \notin KnownProviderNames =>
              /\ ai_service.state = "failed"
              /\ ai_service.constructed = <<>>
              /\ startswith(ai_service.error, <<"Unknown AI_PROVIDER: ">>)
        /\ (Selected \in KnownProviderNames /\ Truthy(Credential)) =>
              /\ ai_service.state = "built"
              /\ Len(ai_service.constructed) = 1
              /\ ai_service.constructed[1].class = ClassNamed(Selected)
              /\ ai_service.constructed[1].api_key = Credential

\* Construction under the name "claude" with all three credentials set.
C21_Witness ==
    /\ settings.AI_PROVIDER = <<"c", "l", "a", "u", "d", "e">>
    /\ Truthy(settings.OPENAI_API_KEY)
    /\ Truthy(settings.GEMINI_API_KEY)
    /\ Truthy(settings.GROQ_API_KEY)
    /\ ai_service.state = "failed"
    /\ ai_service.constructed = <<>>


----------------------------------------------------------------------------
(* Properties of the READ_EMAILS and CATEGORIZE branches *)

\* The turn ran the READ_EMAILS branch as far as its mailbox call.
ReadTurn ==
    /\ chat_pc = "done"
    /\ ChatTurn
    /\ intent = PStr("READ_EMAILS")
    /\ params.t = "dict"
    /\ Len(calls) >= 3

\* The limit the classifier gave, 5 when it gave none.
ClassifiedLimit ==
    IF DictGet(params, "limit", PNone) = PNone THEN 5 ELSE DictGet(params, "limit", PNone).n

\* The n most recent messages of the inbox.
MostRecent(n) == SubSeq(inbox, 1, IF n <= Len(inbox) THEN n ELSE Len(inbox))

----------------------------------------------------------------------------
(* Properties of concurrent calls on the shared GeminiProvider *)

OwnFailures(c) ==
    {i \in DOMAIN gemini_calls[c].log : gemini_calls[c].log[i].ev = "fail"}

OwnRateLimitFailures(c) ==
    {i \in OwnFailures(c) : gemini_calls[c].log[i].s \in RateLimitErrors}

OwnAttempts(c) ==
    Cardinality({i \in DOMAIN gemini_calls[c].log : gemini_calls[c].log[i].ev \in EndpointEvents})

OwnLastFailure(c) ==
    gemini_calls[c].log[CHOOSE i \in OwnFailures(c) : \A k \in OwnFailures(c) : k <= i].s

\* C23: concurrent generate_text calls on the one shared GeminiProvider instance
\* do not share retry state: under any interleaving of two calls, the retry
\* counter of each call counts its own rate-limit failures only and its last
\* error is its own last failure, so a call makes its 4 attempts whatever the
\* other call met, and it raises its own last error.
C23_RetryStatePerCall ==
    \A c \in CallIds :
        /\ gemini_calls[c].retries = Cardinality(OwnRateLimitFailures(c))
        /\ gemini_calls[c].last_error =
              IF OwnFailures(c) = {} THEN <<>> ELSE <<OwnLastFailure(c)>>
        /\ OwnAttempts(c) <= MAX_RETRIES + 1
        /\ (gemini_calls[c].pc \in {"exit", "raised"} /\ OwnFailures(c) = OwnRateLimitFailures(c)) =>
              OwnAttempts(c) = MAX_RETRIES + 1
        /\ gemini_calls[c].pc = "raised" => gemini_calls[c].result = Raised(OwnLastFailure(c))

\* One call gave up after its 4 rate-limited attempts while the other, started
\* meanwhile, is waiting before its first retry.
C23_Witness ==
    /\ gemini_calls[1].pc = "raised"
    /\ gemini_calls[1].retries = 4
    /\ gemini_calls[2].pc = "sleep"
    /\ gemini_calls[2].retries = 1
    /\ OwnAttempts(2) = 1


----------------------------------------------------------------------------
(* Properties of deleting by the number of a listed message *)

\* The turn deletes by a number that is a position of the listing last presented.
DeleteByListedNumber ==
    /\ DeleteTurn
    /\ presented # NotObserved
    /\ GivenIndex.t = "int"
    /\ GivenIndex.n \in DOMAIN presented

C24_Step ==
    (DeleteByListedNumber /\ chat_pc' = "done" /\ AllOk(calls')) =>
        /\ Trashed(calls') = {presented[GivenIndex.n]}
        /\ response'.status = "ok"
        /\ "deleted_email" \in DOMAIN response'.data
        /\ response'.data.deleted_email.id = presented[GivenIndex.n]

\* C24: a DELETE_EMAIL turn with email_index N deletes the email that was shown
\* to the user at position N (1-based) in the listing the assistant last
\* presented, for any listing the assistant can present and under any change of
\* the inbox between the listing turn and the delete turn.
C24_DeletesListedMessage == [][C24_Step]_vars

\* The same for the turns in which the listing last presented is still the
\* head of the inbox.
C24_WhenListingIsCurrent ==
    [][(DeleteByListedNumber /\ presented = MostRecent(Len(presented))) => C24_Step]_vars


----------------------------------------------------------------------------
(* Properties of summarize_email *)

UnableToGenerate == <<"Unable", " ", "to", " ", "generate">>

\* C25: summarize_email never raises: when the provider call fails it returns a
\* non-empty placeholder string that contains "Unable to generate".
C25_SummaryPlaceholder ==
    task = "summarize_email" =>
        /\ task_out.kind = "return"
        /\ task_in.answer.gen.kind = "raise" =>
              /\ task_out.val # <<>>
              /\ contains(task_out.val, UnableToGenerate)

\* The same without the wording of the placeholder.
C25_NeverRaises ==
    task = "summarize_email" =>
        /\ task_out.kind = "return"
        /\ task_in.answer.gen.kind = "raise" => task_out.val # <<>>


----------------------------------------------------------------------------
(* Properties of authentication *)

MailboxOrProviderCalls ==
    {i \in DOMAIN calls :
        calls[i].op \in {"fetch_emails", "search_emails", "send_email", "delete_email",
                         "generate_text"}}

\* The request under authentication carried no token, or one that is
\* malformed, forged or expired.
Unacceptable(request) ==
    \/ NoToken(TokenOf(request))
    \/ jwt_decode(TokenOf(request).s).kind = "raise"

\* C26: no mailbox operation and no provider call is made for a request unless
\* it carried a token that verify_jwt_token accepted: a request with a missing,
\* malformed or expired token ends with 401 before any such call, and
\* verify_jwt_token returns None for malformed and expired tokens.
C26_NoCallWithoutAcceptedToken ==
    /\ MailboxOrProviderCalls # {} =>
          \E token \in Tokens :
              /\ jwt_decode(token).kind = "return"
              /\ user_data = jwt_decode(token).val
    /\ (http_request # NoRequest /\ Unacceptable(http_request)) =>
          /\ chat_pc = "done"
          /\ response.code = 401
          /\ calls = <<>>
          /\ user_data = PNone
    /\ (http_request # NoRequest /\ ~Unacceptable(http_request)) =>
          /\ chat_pc = "authenticated"
          /\ calls = <<>>
    /\ \A token \in {ExpiredToken, ForgedToken, MalformedToken} :
          verify_jwt_token(token) = PNone

\* A request whose cookie holds an expired token was answered with 401.
C26_Witness ==
    /\ chat_pc = "done"
    /\ http_request.auth_token = PStr(ExpiredToken)
    /\ response.code = 401
    /\ calls = <<>>


----------------------------------------------------------------------------
(* Properties of the trash operation *)

TrashCalls == CallsTo(calls, "delete_email")

HasDeletedEmail == response.status = "ok" /\ "deleted_email" \in DOMAIN response.data

\* C29: in a chat turn the mailbox trash operation is called at most once and
\* only when the intent is DELETE_EMAIL; the response contains deleted_email
\* exactly when trash was called and succeeded, deleted_email.id is the id
\* passed to trash, and deleted_email and requires_clarification are never in
\* the same response.
C29_TrashOnceAndReported ==
    ChatTurn =>
        /\ Cardinality(TrashCalls) <= 1
        /\ TrashCalls # {} => intent = PStr("DELETE_EMAIL")
        /\ chat_pc = "done" =>
              /\ HasDeletedEmail <=> \E i \in TrashCalls : calls[i].ok
              /\ HasDeletedEmail =>
                    /\ \A i \in TrashCalls : response.data.deleted_email.id = calls[i].target
                    /\ "requires_clarification" \notin DOMAIN response.data

\* A DELETE_EMAIL turn that trashed a message and reported it.
C29_Witness ==
    /\ ChatTurn
    /\ chat_pc = "done"
    /\ HasDeletedEmail
    /\ \E i \in TrashCalls : calls[i].ok /\ response.data.deleted_email.id = calls[i].target


----------------------------------------------------------------------------
(* Properties of the CATEGORIZE turn *)

CategorizeTurn ==
    /\ chat_pc = "done"
    /\ ChatTurn
    /\ intent = PStr("CATEGORIZE")
    /\ response.status = "ok"

\* The summarize calls of the turn made for message id.
SummariesOf(id) == {i \in CallsTo(calls, "summarize_email") : calls[i].target = id}

\* The number of entries message id has in the returned categories.
BucketEntries(id) ==
    Cardinality({<<c, i>> \in CategoryNames \X (1..MaxEmails) :
                    /\ i <= Len(response.data.categories[c])
                    /\ response.data.categories[c][i].id = id})

\* C30: in a CATEGORIZE turn every fetched message is summarized exactly once,
\* whether it was placed in zero, one or several buckets: every message in the
\* returned categories carries a summary and no message costs more than one
\* summarize call.
C30_EveryFetchedSummarizedOnce ==
    CategorizeTurn =>
        /\ \A k \in DOMAIN Fetched : Cardinality(SummariesOf(Fetched[k])) = 1
        /\ \A c \in CategoryNames : \A i \in DOMAIN response.data.categories[c] :
              "ai_summary" \in DOMAIN response.data.categories[c][i]

\* The same for the fetched messages that are in a bucket; a message in no
\* bucket is not summarized.
C30_BucketedSummarizedOnce ==
    CategorizeTurn =>
        /\ \A k \in DOMAIN Fetched :
              Cardinality(SummariesOf(Fetched[k])) = IF BucketEntries(Fetched[k]) = 0 THEN 0 ELSE 1
        /\ \A c \in CategoryNames : \A i \in DOMAIN response.data.categories[c] :
              "ai_summary" \in DOMAIN response.data.categories[c][i]

\* A message in two buckets was summarized once.
C30_SeveralBuckets ==
    /\ CategorizeTurn
    /\ \E k \in DOMAIN Fetched :
          /\ BucketEntries(Fetched[k]) >= 2
          /\ Cardinality(SummariesOf(Fetched[k])) = 1

====
